---- MODULE Spec2Model ----
(***************************************************************************)
(* Verification model of the UniversalAIChat routing core.                 *)
(*                                                                         *)
(* Part 1: the multi-agent conversation state machine, as implemented by   *)
(* the multi-agent-chat edge function (startMultiAgentConversation,        *)
(* continueConversation, endConversation) and by the client hook           *)
(* useMultiAgentChat (startAgentConversation, continueConversation,        *)
(* endConversation).  Both entry points read and write the same            *)
(* agent_conversations table, so they are actions of one specification.    *)
(*                                                                         *)
(* Part 2: the keyword intent classifier classifyIntent of                 *)
(* useAdvancedIntentClassification.                                        *)
(***************************************************************************)
EXTENDS Integers, Sequences, FiniteSets, TLC

(***************************************************************************)
(* Bounds of the model.                                                    *)
(***************************************************************************)
\* the client hook has no turn limit: the number of turns it may add to
\* one conversation is capped here
MaxHookTurns == 1
\* number of summary rows the chat's messages table may hold
MaxSummaries == 2
\* number of store operations that may fail in one behaviour
MaxFaults == 1
\* number of rows the context_switches table may hold
MaxSwitches == 2
\* the last minute of the clock
MaxClock == 5
\* number of collectFeedback calls in one behaviour
MaxFeedback == 3
\* number of corrections the feedback endpoint may append to one prompt
MaxLearned == 1
\* number of rows of support_tickets
MaxTickets == 2
\* number of rows of support_escalations
MaxEscalations == 2
\* the last minute of the ticket clock
MaxTicketClock == 121
\* number of handleSend calls in one behaviour
MaxSends == 2
\* number of continueConversation requests in flight
MaxRequests == 2
\* length of the longest text handed to chunkText
MaxTextLen == 4
\* the largest chunkSize handed to chunkText
MaxChunkSize == 4
\* number of chunks the memory of the function's worker holds
MaxChunks == 6

(***************************************************************************)
(* Values.                                                                 *)
(***************************************************************************)
\* JavaScript undefined / null / a missing JSON field
Undefined == "undefined"

\* ids of the rows of the agents table
AgentsTable == {"A", "B", "C"}

\* chatId arguments: an existing chat and the empty (falsy) id
ChatIdInputs == {"chat1", ""}

\* `maxTurns = 5`: the default of both entry points
DefaultMaxTurns == 5

\* <<agentIds, maxTurns>> arguments of the two start operations
StartInputs ==
  { << <<>>, DefaultMaxTurns >>,
    << <<"A">>, 1 >>,
    << <<"A", "A">>, DefaultMaxTurns >>,
    << <<"A", "B">>, 1 >>,
    << <<"A", "B">>, 2 >>,
    << <<"A", "B">>, DefaultMaxTurns >>,
    << <<"A", "B", "C">>, 6 >> }

\* agentId arguments of the hook's continueConversation: an agent that is
\* not the round-robin speaker of turn 0 and is the one of turn 1
HookAgentInputs == {"B"}

\* ids of the agent_conversations rows the model follows: every operation
\* selects and updates one row by `.eq('id', conversationId)`, so rows do
\* not interact and one row is followed
ConversationRows == {1}

\* conversationId arguments of the edge function's continueConversation:
\* the ids in use and one unknown id; the other operations are called with
\* the ids in use
ConvIdInputs == ConversationRows \cup {2}

Range(s) == { s[i] : i \in 1..Len(s) }

\* number of turns of a conversation_state that the client hook added
HookTurns(state) ==
  Cardinality({ i \in 1..Len(state.messages) : state.messages[i].content = -1 })

\* number of summary rows in a messages table
Summaries(rows) ==
  Cardinality({ i \in 1..Len(rows) : rows[i].intent = "conversation_summary" })

\* the orders in which a query without ORDER BY may return the rows S
Orderings(S) ==
  { f \in [1..Cardinality(S) -> S] :
      \A i, j \in 1..Cardinality(S) : i # j => f[i] # f[j] }

VARIABLES
  agent_conversations,  \* table agent_conversations: row id = index
  messages,             \* table messages of chat1, in insertion order
  chat_type,            \* chats.chat_type of chat1
  last,                 \* the last call and its response
  faults,               \* number of store operations that have failed
  message,              \* the text handed to classifyIntent
  useAgentsModule,      \* the module that `./useAgents` resolves to
  pc,                   \* position of the classifyIntent call
  result,               \* what the classifyIntent call produced
  ticketMessage,        \* the text handed to classifySupportTicket
  ticketPc,             \* position of the classifySupportTicket call
  ticket,               \* what the classifySupportTicket call returned
  now,                  \* the clock, in minutes
  currentContext,       \* state of the hook useContextSwitching
  chatMeta,             \* chats.meta of chat1
  context_switches,     \* table context_switches, in insertion order
  conversation_contexts,\* table conversation_contexts, in insertion order
  analysis,             \* the last analyzeContextSwitch call and its result
  previous,             \* the analyzeContextSwitch call before it
  system_prompt,        \* agents.system_prompt of the agent followed
  agent_feedback,       \* table agent_feedback of that agent, oldest first
  prompt_improvement_logs, \* table prompt_improvement_logs of that agent
  feedbackLast,         \* the last feedback operation
  ticketClock,          \* the clock of the ticket tables, in minutes
  support_tickets,      \* table support_tickets: row id = index
  support_escalations,  \* table support_escalations, in insertion order
  agent_ids,            \* chats.agent_ids of chat1
  agent_assignments,    \* table agent_assignments, in insertion order
  isRAGEnabled,         \* state of the component ChatInterface
  sendLast,             \* the last handleSend call
  raceConversation,     \* the agent_conversations row the requests address
  raceMessages,         \* the messages the requests have inserted
  requests,             \* the continueConversation requests in flight
  chunkInput,           \* the arguments of the chunkText call
  chunkStart,           \* `start` of chunkText
  chunks,               \* `chunks` of chunkText
  chunkPc               \* position of the chunkText call

convVars == <<agent_conversations, messages, chat_type, last, faults>>

intentVars == <<message, useAgentsModule, pc, result>>

ticketVars == <<ticketMessage, ticketPc, ticket>>

contextVars ==
  <<now, currentContext, chatMeta, context_switches, conversation_contexts,
    analysis, previous>>

feedbackVars ==
  <<system_prompt, agent_feedback, prompt_improvement_logs, feedbackLast>>

escalationVars == <<ticketClock, support_tickets, support_escalations>>

\* the variables of the later parts
sendVars == <<agent_ids, agent_assignments, isRAGEnabled, sendLast>>

raceVars == <<raceConversation, raceMessages, requests>>

chunkVars == <<chunkInput, chunkStart, chunks, chunkPc>>

laterVars == <<escalationVars, sendVars, raceVars, chunkVars>>

vars ==
  <<convVars, intentVars, ticketVars, contextVars, feedbackVars, laterVars>>

\* the variables the conversation operations leave alone
nonConvVars ==
  <<intentVars, ticketVars, contextVars, feedbackVars, laterVars>>

\* the variables classifyIntent leaves alone
nonIntentVars ==
  <<convVars, ticketVars, contextVars, feedbackVars, laterVars>>

\* the variables classifySupportTicket leaves alone
nonTicketVars ==
  <<convVars, intentVars, contextVars, feedbackVars, laterVars>>

\* the variables the context operations leave alone
nonContextVars ==
  <<convVars, intentVars, ticketVars, feedbackVars, laterVars>>

\* the variables the feedback operations leave alone
nonFeedbackVars ==
  <<convVars, intentVars, ticketVars, contextVars, laterVars>>

\* the variables of the first five parts
earlierVars ==
  <<convVars, intentVars, ticketVars, contextVars, feedbackVars>>

\* the variables the ticket tables' operations leave alone
nonEscalationVars == <<earlierVars, sendVars, raceVars, chunkVars>>

\* the variables the requests in flight leave alone
nonRaceVars == <<earlierVars, escalationVars, sendVars, chunkVars>>

\* the variables chunkText leaves alone
nonChunkVars == <<earlierVars, escalationVars, sendVars, raceVars>>

\* the store outcomes of one call: every operation succeeds, or the ones
\* named fail while the fault budget lasts
Failed(flags) == Cardinality({ i \in 1..Len(flags) : ~flags[i] })

Inject(flags) ==
  /\ faults + Failed(flags) <= MaxFaults
  /\ faults' = faults + Failed(flags)

\* the conversation_state of a call that read no row
NoState ==
  [ currentTurn |-> 0, maxTurns |-> 0, agentsKey |-> "none",
    agents |-> <<>>, status |-> "none", messages |-> <<>> ]

\* the response record of a call that has not happened
NoCall ==
  [ op |-> "none", entry |-> "none", conv |-> 0, ok |-> FALSE,
    error |-> "", agentIds |-> <<>>, chatId |-> "",
    agent |-> Undefined, next_agent |-> Undefined, turn |-> 0,
    should_continue |-> FALSE, total_turns |-> 0, total_messages |-> 0,
    pre |-> NoState, preRows |-> 0, preMessages |-> 0, stepFailed |-> FALSE,
    expected |-> Undefined, promised |-> Undefined,
    repeated |-> FALSE, prev_total_turns |-> 0, prev_total_messages |-> 0 ]

\* the record of a call as it starts: what the tables hold, and the
\* next_agent the previous responses have announced
Call(op, entry) ==
  [ NoCall EXCEPT !.op = op, !.entry = entry,
                  !.preRows = Len(agent_conversations),
                  !.preMessages = Len(messages),
                  !.expected = last.promised,
                  !.promised = last.promised ]

\* what a classifyIntent call that has not run has produced
NoResult ==
  [ outcome |-> "none", intent |-> "general", confidence |-> 0,
    priority |-> "medium", requiresEscalation |-> FALSE,
    suggestedAgentRole |-> Undefined, autoResponse |-> FALSE ]

\* the tables as the migrations create them
ConvInit ==
  /\ agent_conversations = <<>>
  /\ messages = <<>>
  /\ chat_type = "general"
  /\ last = NoCall
  /\ faults = 0

\* no classifyIntent call has been made, `./useAgents` resolved to either
\* module
IntentMounted ==
  /\ message = << >>
  /\ useAgentsModule \in {"useAgents.tsx", "useAgents (unnamed part_005)"}
  /\ pc = "idle"
  /\ result = NoResult

\* no classifyIntent call has been made
IntentIdle ==
  /\ message = << >>
  /\ useAgentsModule = "useAgents.tsx"
  /\ pc = "idle"
  /\ result = NoResult

(***************************************************************************)
(* Edge function multi-agent-chat.                                         *)
(***************************************************************************)

\* `!chatId || !agentIds || !Array.isArray(agentIds) || agentIds.length < 2`
\* (every agentIds argument of the model is an array)
StartInputInvalid(chatId, agentIds) ==
  \/ chatId = ""
  \/ Len(agentIds) < 2

\* the initialState literal of startMultiAgentConversation
EdgeInitialState(agentIds, maxTurns) ==
  [ currentTurn |-> 0, maxTurns |-> maxTurns, agentsKey |-> "agents",
    agents |-> agentIds, status |-> "active", messages |-> <<>> ]

\* a row of table messages written for an agent turn
AgentMessageRow(agentId, conversationId, turn) ==
  [ agent_id |-> agentId, intent |-> "agent_conversation",
    conversation_id |-> conversationId, content |-> turn ]

\* `.from('agents').select(...).in('id', agentIds)`: the matching rows, in
\* an order the query does not fix
SelectAgentsIn(agentIds) == Orderings(Range(agentIds) \cap AgentsTable)

StartMultiAgentConversation ==
  \E chatId \in ChatIdInputs, input \in StartInputs :
    /\ Len(agent_conversations) + 1 \in ConversationRows
    /\ UNCHANGED faults
    /\ UNCHANGED nonConvVars
    /\ LET agentIds == input[1]
           maxTurns == input[2]
           call == [ Call("start", "edge") EXCEPT !.agentIds = agentIds,
                                                  !.chatId = chatId ]
       IN
       IF StartInputInvalid(chatId, agentIds)
       THEN /\ last' = [call EXCEPT !.error = "Invalid input"]
            /\ UNCHANGED <<agent_conversations, messages, chat_type>>
       ELSE
         \E agents \in SelectAgentsIn(agentIds) :
           IF Len(agents) # Len(agentIds)
           THEN /\ last' = [call EXCEPT !.error = "Failed to fetch agents"]
                /\ UNCHANGED <<agent_conversations, messages, chat_type>>
           ELSE
             /\ LET id == Len(agent_conversations) + 1
                    row == [ chat_id |-> chatId, agent_ids |-> agentIds,
                             status |-> "active",
                             conversation_state |->
                               EdgeInitialState(agentIds, maxTurns) ]
                IN /\ agent_conversations' = Append(agent_conversations, row)
                   /\ chat_type' = "multi_agent"
                   /\ messages' = Append(messages,
                                          AgentMessageRow(agents[1], id, 0))
                   /\ last' = [call EXCEPT !.ok = TRUE, !.conv = id,
                                           !.agent = agents[1],
                                           !.next_agent = agents[2],
                                           !.promised = agents[2],
                                           !.turn = 1]

\* `.from('agent_conversations').select('*').eq('id', conversationId).single()`
ConversationFound(conversationId) ==
  conversationId \in 1..Len(agent_conversations)

\* `state.currentTurn >= state.maxTurns || state.status !== 'active'`
NotActive(state) ==
  \/ state.currentTurn >= state.maxTurns
  \/ state.status # "active"

\* a variant of NextAgentIndex that selects the speaker of the turn after
NextAgentIndex_OffByOne(state) ==
  ((state.currentTurn + 1) % Len(state.agents)) + 1

\* `state.currentTurn % state.agents.length` (0-based) as a 1-based index
NextAgentIndex(state) == (state.currentTurn % Len(state.agents)) + 1

\* an element of conversation_state.messages
TurnMessage(agentId, content) == [ agentId |-> agentId, content |-> content ]

\* the updatedState literal of the edge function's continueConversation
EdgeUpdatedState(state, agentId) ==
  [ state EXCEPT !.currentTurn = state.currentTurn + 1,
                 !.messages = Append(state.messages,
                                     TurnMessage(agentId, state.currentTurn)) ]

\* `updatedState.currentTurn < updatedState.maxTurns`
ShouldContinue(updatedState) ==
  updatedState.currentTurn < updatedState.maxTurns

\* `state.agents[(updatedState.currentTurn) % state.agents.length]`
ReturnedNextAgent(state, updatedState) ==
  state.agents[(updatedState.currentTurn % Len(state.agents)) + 1]

ContinueConversation ==
  \E conversationId \in ConvIdInputs,
     agentOk \in BOOLEAN, msgOk \in BOOLEAN, updOk \in BOOLEAN :
    /\ Inject(<<agentOk, msgOk, updOk>>)
    /\ UNCHANGED nonConvVars
    /\ LET call == [ Call("continue", "edge") EXCEPT !.conv = conversationId ]
       IN
       IF ~ConversationFound(conversationId)
       THEN /\ last' = [call EXCEPT !.error = "Conversation not found"]
            /\ UNCHANGED <<agent_conversations, messages, chat_type>>
       ELSE
         LET state == agent_conversations[conversationId].conversation_state
             read  == [call EXCEPT !.pre = state]
         IN
         IF NotActive(state)
         THEN /\ last' = [read EXCEPT
                            !.error = "Conversation completed or max turns reached"]
              /\ UNCHANGED <<agent_conversations, messages, chat_type>>
         ELSE IF state.agentsKey # "agents"
         \* state.agents is undefined: `state.agents.length` throws, caught below
         THEN /\ last' = [read EXCEPT !.error = "TypeError"]
              /\ UNCHANGED <<agent_conversations, messages, chat_type>>
         ELSE IF ~agentOk
         THEN /\ last' = [read EXCEPT !.error = "Agent not found",
                                      !.stepFailed = TRUE]
              /\ UNCHANGED <<agent_conversations, messages, chat_type>>
         ELSE
           LET agentId      == state.agents[NextAgentIndex(state)]
               updatedState == EdgeUpdatedState(state, agentId)
           IN
           /\ messages' = IF msgOk
                          THEN Append(messages,
                                      AgentMessageRow(agentId, conversationId,
                                                      state.currentTurn))
                          ELSE messages
           /\ agent_conversations' =
                IF updOk
                THEN [agent_conversations EXCEPT
                        ![conversationId].conversation_state = updatedState]
                ELSE agent_conversations
           /\ chat_type' = chat_type
           /\ last' = [read EXCEPT
                         !.ok = TRUE, !.agent = agentId,
                         !.turn = updatedState.currentTurn,
                         !.should_continue = ShouldContinue(updatedState),
                         !.next_agent =
                            IF ShouldContinue(updatedState)
                            THEN ReturnedNextAgent(state, updatedState)
                            ELSE Undefined,
                         !.promised =
                            IF ShouldContinue(updatedState)
                            THEN ReturnedNextAgent(state, updatedState)
                            ELSE Undefined,
                         !.stepFailed = ~msgOk \/ ~updOk]

\* a variant of EdgeFinalState that counts the ending as a turn
EdgeFinalState_AdvancesTurn(state) ==
  [ state EXCEPT !.status = "completed", !.currentTurn = @ + 1 ]

\* the finalState literal of the edge function's endConversation
EdgeFinalState(state) == [ state EXCEPT !.status = "completed" ]

\* the summary row endConversation inserts into table messages
SummaryRow(conversationId, state) ==
  [ agent_id |-> "System", intent |-> "conversation_summary",
    conversation_id |-> conversationId, content |-> Len(state.messages) ]

\* `total_turns: state.currentTurn, total_messages: state.messages.length`
EndTotals(state) ==
  [ total_turns |-> state.currentTurn, total_messages |-> Len(state.messages) ]

EndConversation ==
  \E conversationId \in ConversationRows :
    /\ UNCHANGED faults
    /\ UNCHANGED nonConvVars
    /\ LET call == [ Call("end", "edge") EXCEPT
                       !.conv = conversationId,
                       !.repeated = /\ last.op = "end"
                                    /\ last.entry = "edge"
                                    /\ last.ok
                                    /\ last.conv = conversationId,
                       !.prev_total_turns = last.total_turns,
                       !.prev_total_messages = last.total_messages ]
       IN
       IF ~ConversationFound(conversationId)
       THEN /\ last' = [call EXCEPT !.error = "Conversation not found"]
            /\ UNCHANGED <<agent_conversations, messages, chat_type>>
       ELSE
         LET state == agent_conversations[conversationId].conversation_state
         IN
         /\ Summaries(messages) < MaxSummaries
         /\ agent_conversations' =
              [agent_conversations EXCEPT
                 ![conversationId].conversation_state = EdgeFinalState(state)]
         /\ messages' = Append(messages, SummaryRow(conversationId, state))
         /\ chat_type' = chat_type
         /\ last' = [call EXCEPT
                       !.pre = state, !.ok = TRUE,
                       !.total_turns = EndTotals(state).total_turns,
                       !.total_messages = EndTotals(state).total_messages]

(***************************************************************************)
(* Client hook useMultiAgentChat.                                          *)
(***************************************************************************)

\* `!user || !chatId || agentIds.length === 0` (a user is signed in)
HookStartInvalid(chatId, agentIds) ==
  \/ chatId = ""
  \/ Len(agentIds) = 0

\* the initialState literal of startAgentConversation
HookInitialState(agentIds, maxTurns) ==
  [ currentTurn |-> 0, maxTurns |-> maxTurns, agentsKey |-> "participants",
    agents |-> agentIds, status |-> "active", messages |-> <<>> ]

StartAgentConversation ==
  \E chatId \in ChatIdInputs, input \in StartInputs :
    /\ Len(agent_conversations) + 1 \in ConversationRows
    /\ UNCHANGED faults
    /\ UNCHANGED nonConvVars
    /\ LET agentIds == input[1]
           maxTurns == input[2]
           call == [ Call("start", "hook") EXCEPT !.agentIds = agentIds,
                                                  !.chatId = chatId ]
       IN
       IF HookStartInvalid(chatId, agentIds)
       THEN /\ last' = [call EXCEPT
                          !.error = "Invalid parameters for starting conversation"]
            /\ UNCHANGED <<agent_conversations, messages, chat_type>>
       ELSE
         /\ agent_conversations' =
              Append(agent_conversations,
                     [ chat_id |-> chatId, agent_ids |-> agentIds,
                       status |-> "active",
                       conversation_state |->
                         HookInitialState(agentIds, maxTurns) ])
         /\ last' = [call EXCEPT !.ok = TRUE, !.promised = Undefined,
                                 !.conv = Len(agent_conversations) + 1]
         /\ UNCHANGED <<messages, chat_type>>

\* `currentState.currentTurn + 1 >= currentState.maxTurns ? 'completed' : 'active'`
HookStatus(currentState) ==
  IF currentState.currentTurn + 1 >= currentState.maxTurns
  THEN "completed" ELSE "active"

\* the updatedState literal of the hook's continueConversation; the text
\* of the message is the caller's
HookUpdatedState(currentState, agentId) ==
  [ currentState EXCEPT
      !.currentTurn = currentState.currentTurn + 1,
      !.messages = Append(currentState.messages, TurnMessage(agentId, -1)),
      !.status = HookStatus(currentState) ]

HookContinueConversation ==
  \E conversationId \in ConversationRows, agentId \in HookAgentInputs,
     updOk \in BOOLEAN :
    /\ Inject(<<updOk>>)
    /\ UNCHANGED nonConvVars
    /\ LET call == [ Call("continue", "hook") EXCEPT !.conv = conversationId ]
       IN
       IF ~ConversationFound(conversationId)
       THEN /\ last' = [call EXCEPT !.error = "Conversation not found"]
            /\ UNCHANGED <<agent_conversations, messages, chat_type>>
       ELSE
         LET currentState ==
               agent_conversations[conversationId].conversation_state
             updatedState == HookUpdatedState(currentState, agentId)
             read == [call EXCEPT !.pre = currentState]
         IN
         /\ HookTurns(currentState) < MaxHookTurns
         /\ IF ~updOk
            THEN /\ last' = [read EXCEPT !.error = "updateError",
                                         !.stepFailed = TRUE]
                 /\ UNCHANGED <<agent_conversations, messages, chat_type>>
            ELSE
              /\ agent_conversations' =
                   [agent_conversations EXCEPT
                      ![conversationId].conversation_state = updatedState,
                      ![conversationId].status = updatedState.status]
              /\ last' = [read EXCEPT !.ok = TRUE, !.agent = agentId,
                                      !.turn = updatedState.currentTurn]
              /\ UNCHANGED <<messages, chat_type>>

HookEndConversation ==
  \E conversationId \in ConversationRows :
    /\ UNCHANGED faults
    /\ UNCHANGED nonConvVars
    /\ LET call == [ Call("end", "hook") EXCEPT !.conv = conversationId ]
       IN
       \* an update that matches no row is not an error
         /\ agent_conversations' =
              IF ConversationFound(conversationId)
              THEN [agent_conversations EXCEPT
                      ![conversationId].status = "completed"]
              ELSE agent_conversations
         /\ last' = [call EXCEPT
                       !.ok = TRUE,
                       !.pre = IF ConversationFound(conversationId)
                               THEN agent_conversations[conversationId]
                                      .conversation_state
                               ELSE NoState]
         /\ UNCHANGED <<messages, chat_type>>

(***************************************************************************)
(* Part 2: classifyIntent of useAdvancedIntentClassification.              *)
(* A string is the sequence of its UTF-16 code units.                      *)
(***************************************************************************)
\* number of phrases a message of the model is made of
MaxFragments == 2

\* `urgentPatterns`: strings are sequences of UTF-16 code units
urgentPatterns ==
  <<
    \* 'kriticheskaya oshibka' (Cyrillic)
    <<1082, 1088, 1080, 1090, 1080, 1095, 1077, 1089, 1082, 1072,
      1103, 32, 1086, 1096, 1080, 1073, 1082, 1072>>,
    \* 'sajt ne rabotaet' (Cyrillic)
    <<1089, 1072, 1081, 1090, 32, 1085, 1077, 32, 1088, 1072, 1073,
      1086, 1090, 1072, 1077, 1090>>,
    \* 'sistema upala' (Cyrillic)
    <<1089, 1080, 1089, 1090, 1077, 1084, 1072, 32, 1091, 1087, 1072,
      1083, 1072>>,
    \* 'critical error'
    <<99, 114, 105, 116, 105, 99, 97, 108, 32, 101, 114, 114, 111,
      114>>,
    \* 'site down'
    <<115, 105, 116, 101, 32, 100, 111, 119, 110>>,
    \* 'system crash'
    <<115, 121, 115, 116, 101, 109, 32, 99, 114, 97, 115, 104>>,
    \* 'urgent'
    <<117, 114, 103, 101, 110, 116>>,
    \* 'srochno' (Cyrillic)
    <<1089, 1088, 1086, 1095, 1085, 1086>>,
    \* 'emergency'
    <<101, 109, 101, 114, 103, 101, 110, 99, 121>>
  >>

\* `technicalPatterns.high`
technicalPatternsHigh ==
  <<
    \* 'ne rabotaet' (Cyrillic)
    <<1085, 1077, 32, 1088, 1072, 1073, 1086, 1090, 1072, 1077,
      1090>>,
    \* 'sistema upala' (Cyrillic)
    <<1089, 1080, 1089, 1090, 1077, 1084, 1072, 32, 1091, 1087, 1072,
      1083, 1072>>,
    \* 'oshibka 500' (Cyrillic)
    <<1086, 1096, 1080, 1073, 1082, 1072, 32, 53, 48, 48>>,
    \* 'baza dannyh' (Cyrillic)
    <<1073, 1072, 1079, 1072, 32, 1076, 1072, 1085, 1085, 1099,
      1093>>,
    \* 'not working'
    <<110, 111, 116, 32, 119, 111, 114, 107, 105, 110, 103>>,
    \* 'system down'
    <<115, 121, 115, 116, 101, 109, 32, 100, 111, 119, 110>>,
    \* '500 error'
    <<53, 48, 48, 32, 101, 114, 114, 111, 114>>,
    \* 'database error'
    <<100, 97, 116, 97, 98, 97, 115, 101, 32, 101, 114, 114, 111,
      114>>
  >>

\* `technicalPatterns.medium`
technicalPatternsMedium ==
  <<
    \* 'problema s zagruzkoj' (Cyrillic)
    <<1087, 1088, 1086, 1073, 1083, 1077, 1084, 1072, 32, 1089, 32,
      1079, 1072, 1075, 1088, 1091, 1079, 1082, 1086, 1081>>,
    \* 'medlenno rabotaet' (Cyrillic)
    <<1084, 1077, 1076, 1083, 1077, 1085, 1085, 1086, 32, 1088, 1072,
      1073, 1086, 1090, 1072, 1077, 1090>>,
    \* 'timeout'
    <<116, 105, 109, 101, 111, 117, 116>>,
    \* 'loading issues'
    <<108, 111, 97, 100, 105, 110, 103, 32, 105, 115, 115, 117, 101,
      115>>,
    \* 'slow performance'
    <<115, 108, 111, 119, 32, 112, 101, 114, 102, 111, 114, 109, 97,
      110, 99, 101>>,
    \* 'connection timeout'
    <<99, 111, 110, 110, 101, 99, 116, 105, 111, 110, 32, 116, 105,
      109, 101, 111, 117, 116>>
  >>

\* `technicalPatterns.low`
technicalPatternsLow ==
  <<
    \* 'kak nastroit' (Cyrillic)
    <<1082, 1072, 1082, 32, 1085, 1072, 1089, 1090, 1088, 1086, 1080,
      1090, 1100>>,
    \* 'how to configure'
    <<104, 111, 119, 32, 116, 111, 32, 99, 111, 110, 102, 105, 103,
      117, 114, 101>>,
    \* 'vopros po funkcii' (Cyrillic)
    <<1074, 1086, 1087, 1088, 1086, 1089, 32, 1087, 1086, 32, 1092,
      1091, 1085, 1082, 1094, 1080, 1080>>,
    \* 'question about feature'
    <<113, 117, 101, 115, 116, 105, 111, 110, 32, 97, 98, 111, 117,
      116, 32, 102, 101, 97, 116, 117, 114, 101>>,
    \* 'help with setup'
    <<104, 101, 108, 112, 32, 119, 105, 116, 104, 32, 115, 101, 116,
      117, 112>>
  >>

\* `documentPatterns`
documentPatterns ==
  <<
    \* 'dokument' (Cyrillic)
    <<1076, 1086, 1082, 1091, 1084, 1077, 1085, 1090>>,
    \* 'fajl' (Cyrillic)
    <<1092, 1072, 1081, 1083>>,
    \* 'pdf'
    <<112, 100, 102>>,
    \* 'zagruzit' (Cyrillic)
    <<1079, 1072, 1075, 1088, 1091, 1079, 1080, 1090, 1100>>,
    \* 'poisk po dokumentu' (Cyrillic)
    <<1087, 1086, 1080, 1089, 1082, 32, 1087, 1086, 32, 1076, 1086,
      1082, 1091, 1084, 1077, 1085, 1090, 1091>>,
    \* 'document'
    <<100, 111, 99, 117, 109, 101, 110, 116>>,
    \* 'file'
    <<102, 105, 108, 101>>,
    \* 'search'
    <<115, 101, 97, 114, 99, 104>>,
    \* 'upload'
    <<117, 112, 108, 111, 97, 100>>,
    \* 'najti v dokumente' (Cyrillic)
    <<1085, 1072, 1081, 1090, 1080, 32, 1074, 32, 1076, 1086, 1082,
      1091, 1084, 1077, 1085, 1090, 1077>>,
    \* 'v dokumentacii' (Cyrillic)
    <<1074, 32, 1076, 1086, 1082, 1091, 1084, 1077, 1085, 1090, 1072,
      1094, 1080, 1080>>,
    \* 'in documentation'
    <<105, 110, 32, 100, 111, 99, 117, 109, 101, 110, 116, 97, 116,
      105, 111, 110>>
  >>

\* `researchPatterns`
researchPatterns ==
  <<
    \* 'issledovanie' (Cyrillic)
    <<1080, 1089, 1089, 1083, 1077, 1076, 1086, 1074, 1072, 1085,
      1080, 1077>>,
    \* 'analiz' (Cyrillic)
    <<1072, 1085, 1072, 1083, 1080, 1079>>,
    \* 'izuchit' (Cyrillic)
    <<1080, 1079, 1091, 1095, 1080, 1090, 1100>>,
    \* 'najti informaciyu' (Cyrillic)
    <<1085, 1072, 1081, 1090, 1080, 32, 1080, 1085, 1092, 1086, 1088,
      1084, 1072, 1094, 1080, 1102>>,
    \* 'sravnit' (Cyrillic)
    <<1089, 1088, 1072, 1074, 1085, 1080, 1090, 1100>>,
    \* 'research'
    <<114, 101, 115, 101, 97, 114, 99, 104>>,
    \* 'analysis'
    <<97, 110, 97, 108, 121, 115, 105, 115>>,
    \* 'study'
    <<115, 116, 117, 100, 121>>,
    \* 'compare'
    <<99, 111, 109, 112, 97, 114, 101>>,
    \* 'analyze'
    <<97, 110, 97, 108, 121, 122, 101>>,
    \* 'investigate'
    <<105, 110, 118, 101, 115, 116, 105, 103, 97, 116, 101>>
  >>

\* `featurePatterns`
featurePatterns ==
  <<
    \* 'dobavit funkciyu' (Cyrillic)
    <<1076, 1086, 1073, 1072, 1074, 1080, 1090, 1100, 32, 1092, 1091,
      1085, 1082, 1094, 1080, 1102>>,
    \* 'novaya vozmozhnost' (Cyrillic)
    <<1085, 1086, 1074, 1072, 1103, 32, 1074, 1086, 1079, 1084, 1086,
      1078, 1085, 1086, 1089, 1090, 1100>>,
    \* 'feature request'
    <<102, 101, 97, 116, 117, 114, 101, 32, 114, 101, 113, 117, 101,
      115, 116>>,
    \* 'add feature'
    <<97, 100, 100, 32, 102, 101, 97, 116, 117, 114, 101>>,
    \* 'enhancement'
    <<101, 110, 104, 97, 110, 99, 101, 109, 101, 110, 116>>,
    \* 'improvement'
    <<105, 109, 112, 114, 111, 118, 101, 109, 101, 110, 116>>,
    \* 'predlozhenie' (Cyrillic)
    <<1087, 1088, 1077, 1076, 1083, 1086, 1078, 1077, 1085, 1080,
      1077>>
  >>

\* `bugPatterns`
bugPatterns ==
  <<
    \* 'bag' (Cyrillic)
    <<1073, 1072, 1075>>,
    \* 'oshibka v kode' (Cyrillic)
    <<1086, 1096, 1080, 1073, 1082, 1072, 32, 1074, 32, 1082, 1086,
      1076, 1077>>,
    \* 'nepravilno rabotaet' (Cyrillic)
    <<1085, 1077, 1087, 1088, 1072, 1074, 1080, 1083, 1100, 1085,
      1086, 32, 1088, 1072, 1073, 1086, 1090, 1072, 1077, 1090>>,
    \* 'bug'
    <<98, 117, 103>>,
    \* 'code error'
    <<99, 111, 100, 101, 32, 101, 114, 114, 111, 114>>,
    \* 'incorrect behavior'
    <<105, 110, 99, 111, 114, 114, 101, 99, 116, 32, 98, 101, 104, 97,
      118, 105, 111, 114>>,
    \* 'broken feature'
    <<98, 114, 111, 107, 101, 110, 32, 102, 101, 97, 116, 117, 114,
      101>>
  >>

\* the phrases the messages of the model are made of: keywords of every
\* rule, some in upper case, and words that match no rule
Fragments ==
  <<
    \* 'urgent'
    <<117, 114, 103, 101, 110, 116>>,
    \* 'URGENT'
    <<85, 82, 71, 69, 78, 84>>,
    \* 'Srochno' (Cyrillic)
    <<1057, 1088, 1086, 1095, 1085, 1086>>,
    \* 'kriticheskaya oshibka' (Cyrillic)
    <<1082, 1088, 1080, 1090, 1080, 1095, 1077, 1089, 1082, 1072,
      1103, 32, 1086, 1096, 1080, 1073, 1082, 1072>>,
    \* 'sistema upala' (Cyrillic)
    <<1089, 1080, 1089, 1090, 1077, 1084, 1072, 32, 1091, 1087, 1072,
      1083, 1072>>,
    \* 'sajt ne rabotaet' (Cyrillic)
    <<1089, 1072, 1081, 1090, 32, 1085, 1077, 32, 1088, 1072, 1073,
      1086, 1090, 1072, 1077, 1090>>,
    \* 'ne rabotaet' (Cyrillic)
    <<1085, 1077, 32, 1088, 1072, 1073, 1086, 1090, 1072, 1077,
      1090>>,
    \* 'oshibka 500' (Cyrillic)
    <<1086, 1096, 1080, 1073, 1082, 1072, 32, 53, 48, 48>>,
    \* 'timeout'
    <<116, 105, 109, 101, 111, 117, 116>>,
    \* 'how to configure'
    <<104, 111, 119, 32, 116, 111, 32, 99, 111, 110, 102, 105, 103,
      117, 114, 101>>,
    \* 'pdf'
    <<112, 100, 102>>,
    \* 'research'
    <<114, 101, 115, 101, 97, 114, 99, 104>>,
    \* 'compare'
    <<99, 111, 109, 112, 97, 114, 101>>,
    \* 'feature request'
    <<102, 101, 97, 116, 117, 114, 101, 32, 114, 101, 113, 117, 101,
      115, 116>>,
    \* 'bug'
    <<98, 117, 103>>,
    \* 'hello'
    <<104, 101, 108, 108, 111>>,
    \* 'Pomogite' (Cyrillic)
    <<1055, 1086, 1084, 1086, 1075, 1080, 1090, 1077>>
  >>

\* `String.prototype.toLowerCase` on one code unit: Latin A-Z, Cyrillic
\* U+0410..U+042F and U+0401; the other code units of the model are fixed
LowerUnit(c) ==
  IF c \in 65..90 THEN c + 32
  ELSE IF c \in 1040..1071 THEN c + 32
  ELSE IF c = 1025 THEN 1105
  ELSE c

\* `message.toLowerCase()`
ToLowerCase(s) == [ i \in 1..Len(s) |-> LowerUnit(s[i]) ]

\* `s.includes(p)`
Includes(s, p) ==
  \E i \in 0..(Len(s) - Len(p)) : SubSeq(s, i + 1, i + Len(p)) = p

\* `patterns.some(pattern => lowerMessage.includes(pattern))`
SomeIncluded(patterns, lowerMessage) ==
  \E k \in 1..Len(patterns) : Includes(lowerMessage, patterns[k])

\* the phrases of fs joined by single spaces (code unit 32)
RECURSIVE Join(_)
Join(fs) ==
  IF Len(fs) = 0 THEN << >>
  ELSE IF Len(fs) = 1 THEN Fragments[fs[1]]
  ELSE Fragments[fs[1]] \o <<32>> \o Join(Tail(fs))

\* the messages of the model: the empty string, a whitespace-only string
\* and every sequence of at most MaxFragments phrases
Messages ==
  { <<32, 32>> } \cup
  { Join(fs) : fs \in UNION { [1..n -> 1..Len(Fragments)] :
                               n \in 0..MaxFragments } }

\* the object `useAgents()` returns, in the two versions of the module
UseAgentsApi ==
  { "agents", "loading", "createAgent", "updateAgent", "sendFeedback",
    "deleteAgent", "loadAgents" }

UseAgentsApiAlt ==
  { "agents", "loading", "error", "createAgent", "updateAgent",
    "deleteAgent", "getAgentById", "loadAgents" }

UseAgentsModules == {"useAgents.tsx", "useAgents (unnamed part_005)"}

\* `const { getAgentsByRole } = useAgents()`: a function, or undefined
GetAgentsByRoleDefined(module) ==
  "getAgentsByRole" \in
     (IF module = "useAgents.tsx" THEN UseAgentsApi ELSE UseAgentsApiAlt)

\* `await getAgentsByRole(role)` followed by the assignments after it:
\* calling undefined throws a TypeError, which classifyIntent does not
\* catch (its try has only a finally), so the promise is rejected and
\* nothing is returned; the record then holds the locals at the throw
AfterLookup(module, locals, role, autoResponse) ==
  IF GetAgentsByRoleDefined(module)
  THEN [ locals EXCEPT !.outcome = "returned",
                       !.suggestedAgentRole = role,
                       !.autoResponse = autoResponse ]
  ELSE [ locals EXCEPT !.outcome = "threw" ]

\* the locals of classifyIntent as declared: `intent = 'general'`,
\* `confidence = 0.5` (in hundredths), `priority = 'medium'`
InitialLocals ==
  [ outcome |-> "returned", intent |-> "general", confidence |-> 50,
    priority |-> "medium", requiresEscalation |-> FALSE,
    suggestedAgentRole |-> Undefined, autoResponse |-> FALSE ]

\* the branch `technicalPatterns.high/medium/low` of classifyIntent
TechnicalLocals(lowerMessage) ==
  IF SomeIncluded(technicalPatternsHigh, lowerMessage)
  THEN [ InitialLocals EXCEPT !.intent = "technical_support",
                              !.priority = "high", !.confidence = 90 ]
  ELSE IF SomeIncluded(technicalPatternsMedium, lowerMessage)
  THEN [ InitialLocals EXCEPT !.intent = "technical_support",
                              !.priority = "medium", !.confidence = 80 ]
  ELSE [ InitialLocals EXCEPT !.intent = "technical_support",
                              !.priority = "low", !.confidence = 70 ]

classifyIntent(msg, module) ==
  LET lowerMessage == ToLowerCase(msg)
  IN
  IF SomeIncluded(urgentPatterns, lowerMessage)
  THEN AfterLookup(module,
                   [ InitialLocals EXCEPT !.intent = "urgent_support",
                                          !.confidence = 95,
                                          !.priority = "urgent",
                                          !.requiresEscalation = TRUE ],
                   "support", TRUE)
  ELSE IF SomeIncluded(technicalPatternsHigh \o technicalPatternsMedium
                         \o technicalPatternsLow, lowerMessage)
  THEN AfterLookup(module, TechnicalLocals(lowerMessage), "support", FALSE)
  ELSE IF SomeIncluded(documentPatterns, lowerMessage)
  THEN AfterLookup(module,
                   [ InitialLocals EXCEPT !.intent = "document_question",
                                          !.confidence = 85,
                                          !.priority = "low" ],
                   "researcher", FALSE)
  ELSE IF SomeIncluded(researchPatterns, lowerMessage)
  THEN AfterLookup(module,
                   [ InitialLocals EXCEPT !.intent = "research_request",
                                          !.confidence = 80,
                                          !.priority = "medium" ],
                   "researcher", FALSE)
  ELSE IF SomeIncluded(featurePatterns, lowerMessage)
  THEN [ InitialLocals EXCEPT !.intent = "feature_request",
                              !.confidence = 75,
                              !.priority = "low",
                              !.autoResponse = TRUE ]
  ELSE IF SomeIncluded(bugPatterns, lowerMessage)
  THEN AfterLookup(module,
                   [ InitialLocals EXCEPT !.intent = "bug_report",
                                          !.confidence = 80,
                                          !.priority = "medium" ],
                   "support", TRUE)
  ELSE InitialLocals

\* a component calls classifyIntent with some message
IntentCalled ==
  /\ message \in Messages
  /\ useAgentsModule \in UseAgentsModules
  /\ pc = "called"
  /\ result = NoResult

ClassifyIntent ==
  /\ pc = "called"
  /\ result' = classifyIntent(message, useAgentsModule)
  /\ pc' = "done"
  /\ UNCHANGED <<message, useAgentsModule>>
  /\ UNCHANGED nonIntentVars

(***************************************************************************)
(* Part 3: classifySupportTicket of useAdvancedIntentClassification.       *)
(***************************************************************************)

\* the words of the technical test: `['oshibka', 'ne rabotaet', 'error',
\* 'broken', 'crash'].some(...)`
ticketTechnicalWords ==
  <<
    \* 'oshibka' (Cyrillic)
    <<1086, 1096, 1080, 1073, 1082, 1072>>,
    \* 'ne rabotaet' (Cyrillic)
    <<1085, 1077, 32, 1088, 1072, 1073, 1086, 1090, 1072, 1077,
      1090>>,
    \* 'error'
    <<101, 114, 114, 111, 114>>,
    \* 'broken'
    <<98, 114, 111, 107, 101, 110>>,
    \* 'crash'
    <<99, 114, 97, 115, 104>>
  >>

\* the words of the high-complexity test; 'API' is written in upper case
ticketComplexWords ==
  <<
    \* 'baza dannyh' (Cyrillic)
    <<1073, 1072, 1079, 1072, 32, 1076, 1072, 1085, 1085, 1099,
      1093>>,
    \* 'database'
    <<100, 97, 116, 97, 98, 97, 115, 101>>,
    \* 'API'
    <<65, 80, 73>>,
    \* 'integraciya' (Cyrillic)
    <<1080, 1085, 1090, 1077, 1075, 1088, 1072, 1094, 1080, 1103>>,
    \* 'integration'
    <<105, 110, 116, 101, 103, 114, 97, 116, 105, 111, 110>>
  >>

\* the words of the medium-complexity test
ticketModerateWords ==
  <<
    \* 'zagruzka' (Cyrillic)
    <<1079, 1072, 1075, 1088, 1091, 1079, 1082, 1072>>,
    \* 'performance'
    <<112, 101, 114, 102, 111, 114, 109, 97, 110, 99, 101>>,
    \* 'medlenno' (Cyrillic)
    <<1084, 1077, 1076, 1083, 1077, 1085, 1085, 1086>>,
    \* 'timeout'
    <<116, 105, 109, 101, 111, 117, 116>>
  >>

\* the words of the bug-report test
ticketBugWords ==
  <<
    \* 'bag' (Cyrillic)
    <<1073, 1072, 1075>>,
    \* 'bug'
    <<98, 117, 103>>,
    \* 'nepravilno' (Cyrillic)
    <<1085, 1077, 1087, 1088, 1072, 1074, 1080, 1083, 1100, 1085,
      1086>>,
    \* 'incorrect'
    <<105, 110, 99, 111, 114, 114, 101, 99, 116>>
  >>

\* the words of the feature-request test
ticketFeatureWords ==
  <<
    \* 'funkciya' (Cyrillic)
    <<1092, 1091, 1085, 1082, 1094, 1080, 1103>>,
    \* 'feature'
    <<102, 101, 97, 116, 117, 114, 101>>,
    \* 'dobavit' (Cyrillic)
    <<1076, 1086, 1073, 1072, 1074, 1080, 1090, 1100>>,
    \* 'add'
    <<97, 100, 100>>,
    \* 'enhancement'
    <<101, 110, 104, 97, 110, 99, 101, 109, 101, 110, 116>>
  >>

\* the words of the billing test
ticketBillingWords ==
  <<
    \* 'oplata' (Cyrillic)
    <<1086, 1087, 1083, 1072, 1090, 1072>>,
    \* 'billing'
    <<98, 105, 108, 108, 105, 110, 103>>,
    \* 'payment'
    <<112, 97, 121, 109, 101, 110, 116>>,
    \* 'schet' (Cyrillic)
    <<1089, 1095, 1077, 1090>>,
    \* 'subscription'
    <<115, 117, 98, 115, 99, 114, 105, 112, 116, 105, 111, 110>>
  >>

\* the words of the escalation test
ticketEscalationWords ==
  <<
    \* 'critical'
    <<99, 114, 105, 116, 105, 99, 97, 108>>,
    \* 'kriticheskij' (Cyrillic)
    <<1082, 1088, 1080, 1090, 1080, 1095, 1077, 1089, 1082, 1080,
      1081>>,
    \* 'urgent'
    <<117, 114, 103, 101, 110, 116>>,
    \* 'srochno' (Cyrillic)
    <<1089, 1088, 1086, 1095, 1085, 1086>>
  >>

\* the phrases the ticket messages of the model are made of
TicketFragments ==
  <<
    \* 'kriticheskaya oshibka, sistema ne rabotaet' (Cyrillic)
    <<1082, 1088, 1080, 1090, 1080, 1095, 1077, 1089, 1082, 1072,
      1103, 32, 1086, 1096, 1080, 1073, 1082, 1072, 44, 32, 1089,
      1080, 1089, 1090, 1077, 1084, 1072, 32, 1085, 1077, 32, 1088,
      1072, 1073, 1086, 1090, 1072, 1077, 1090>>,
    \* 'oshibka' (Cyrillic)
    <<1086, 1096, 1080, 1073, 1082, 1072>>,
    \* 'error'
    <<101, 114, 114, 111, 114>>,
    \* 'database'
    <<100, 97, 116, 97, 98, 97, 115, 101>>,
    \* 'API'
    <<65, 80, 73>>,
    \* 'timeout'
    <<116, 105, 109, 101, 111, 117, 116>>,
    \* 'bug'
    <<98, 117, 103>>,
    \* 'add'
    <<97, 100, 100>>,
    \* 'billing'
    <<98, 105, 108, 108, 105, 110, 103>>,
    \* 'critical'
    <<99, 114, 105, 116, 105, 99, 97, 108>>,
    \* 'Srochno' (Cyrillic)
    <<1057, 1088, 1086, 1095, 1085, 1086>>,
    \* 'kriticheskij' (Cyrillic)
    <<1082, 1088, 1080, 1090, 1080, 1095, 1077, 1089, 1082, 1080,
      1081>>,
    \* 'URGENT'
    <<85, 82, 71, 69, 78, 84>>,
    \* 'hello'
    <<104, 101, 108, 108, 111>>
  >>

RECURSIVE TicketJoin(_)
TicketJoin(fs) ==
  IF Len(fs) = 0 THEN << >>
  ELSE IF Len(fs) = 1 THEN TicketFragments[fs[1]]
  ELSE TicketFragments[fs[1]] \o <<32>> \o TicketJoin(Tail(fs))

\* the ticket messages of the model: the empty string and every sequence
\* of at most MaxFragments phrases
TicketMessages ==
  { TicketJoin(fs) : fs \in UNION { [1..n -> 1..Len(TicketFragments)] :
                                     n \in 0..MaxFragments } }

\* the locals of classifySupportTicket as declared
TicketDefaults ==
  [ category |-> "general", priority |-> "medium",
    complexity |-> "moderate", estimatedResolutionTime |-> 30,
    requiresHumanEscalation |-> FALSE ]

\* the if / else-if chain that sets category, complexity, priority and
\* estimatedResolutionTime
TicketCategory(lowerMessage) ==
  IF SomeIncluded(ticketTechnicalWords, lowerMessage)
  THEN IF SomeIncluded(ticketComplexWords, lowerMessage)
       THEN [ TicketDefaults EXCEPT !.category = "technical",
                                    !.complexity = "complex",
                                    !.priority = "high",
                                    !.estimatedResolutionTime = 120,
                                    !.requiresHumanEscalation = TRUE ]
       ELSE IF SomeIncluded(ticketModerateWords, lowerMessage)
       THEN [ TicketDefaults EXCEPT !.category = "technical",
                                    !.complexity = "moderate",
                                    !.priority = "medium",
                                    !.estimatedResolutionTime = 60 ]
       ELSE [ TicketDefaults EXCEPT !.category = "technical",
                                    !.complexity = "simple",
                                    !.priority = "low",
                                    !.estimatedResolutionTime = 15 ]
  ELSE IF SomeIncluded(ticketBugWords, lowerMessage)
  THEN [ TicketDefaults EXCEPT !.category = "bug_report",
                               !.complexity = "moderate",
                               !.priority = "medium",
                               !.estimatedResolutionTime = 45 ]
  ELSE IF SomeIncluded(ticketFeatureWords, lowerMessage)
  THEN [ TicketDefaults EXCEPT !.category = "feature_request",
                               !.complexity = "simple",
                               !.priority = "low",
                               !.estimatedResolutionTime = 5 ]
  ELSE IF SomeIncluded(ticketBillingWords, lowerMessage)
  THEN [ TicketDefaults EXCEPT !.category = "billing",
                               !.complexity = "simple",
                               !.priority = "medium",
                               !.estimatedResolutionTime = 20 ]
  ELSE TicketDefaults

\* a variant of TicketEscalation that escalates without raising the
\* priority
TicketEscalation_KeepsPriority(t, lowerMessage) ==
  IF t.priority = "high" \/ SomeIncluded(ticketEscalationWords, lowerMessage)
  THEN [ t EXCEPT !.requiresHumanEscalation = TRUE ]
  ELSE t

\* the escalation criteria: `priority === 'high' || [...].some(...)`
TicketEscalation(t, lowerMessage) ==
  IF t.priority = "high" \/ SomeIncluded(ticketEscalationWords, lowerMessage)
  THEN [ t EXCEPT !.requiresHumanEscalation = TRUE, !.priority = "urgent" ]
  ELSE t

classifySupportTicket(msg) ==
  LET lowerMessage == ToLowerCase(msg)
  IN TicketEscalation(TicketCategory(lowerMessage), lowerMessage)

\* no classifySupportTicket call has been made
TicketIdle ==
  /\ ticketMessage = << >>
  /\ ticketPc = "idle"
  /\ ticket = TicketDefaults

\* a component calls classifySupportTicket with some message
TicketCalled ==
  /\ ticketMessage \in TicketMessages
  /\ ticketPc = "called"
  /\ ticket = TicketDefaults

ClassifySupportTicket ==
  /\ ticketPc = "called"
  /\ ticket' = classifySupportTicket(ticketMessage)
  /\ ticketPc' = "done"
  /\ UNCHANGED ticketMessage
  /\ UNCHANGED nonTicketVars

(***************************************************************************)
(* Part 4: context switching: the hook useContextSwitching                 *)
(* (analyzeContextSwitch, analyzeCurrentContextEffectiveness,              *)
(* executeContextSwitch) and the database function                         *)
(* switch_conversation_context.                                            *)
(***************************************************************************)

\* the document/RAG indicators of analyzeContextSwitch
documentKeywords ==
  <<
    \* 'v dokumente' (Cyrillic)
    <<1074, 32, 1076, 1086, 1082, 1091, 1084, 1077, 1085, 1090,
      1077>>,
    \* 'po dokumentu' (Cyrillic)
    <<1087, 1086, 32, 1076, 1086, 1082, 1091, 1084, 1077, 1085, 1090,
      1091>>,
    \* 'dokumentaciya' (Cyrillic)
    <<1076, 1086, 1082, 1091, 1084, 1077, 1085, 1090, 1072, 1094,
      1080, 1103>>,
    \* 'pdf'
    <<112, 100, 102>>,
    \* 'fajl' (Cyrillic)
    <<1092, 1072, 1081, 1083>>,
    \* 'in document'
    <<105, 110, 32, 100, 111, 99, 117, 109, 101, 110, 116>>,
    \* 'documentation'
    <<100, 111, 99, 117, 109, 101, 110, 116, 97, 116, 105, 111, 110>>,
    \* 'file'
    <<102, 105, 108, 101>>,
    \* 'according to'
    <<97, 99, 99, 111, 114, 100, 105, 110, 103, 32, 116, 111>>,
    \* 'najti v' (Cyrillic)
    <<1085, 1072, 1081, 1090, 1080, 32, 1074>>,
    \* 'poisk po' (Cyrillic)
    <<1087, 1086, 1080, 1089, 1082, 32, 1087, 1086>>,
    \* 'chto govoritsya v' (Cyrillic)
    <<1095, 1090, 1086, 32, 1075, 1086, 1074, 1086, 1088, 1080, 1090,
      1089, 1103, 32, 1074>>,
    \* 'na osnove dokumenta' (Cyrillic)
    <<1085, 1072, 32, 1086, 1089, 1085, 1086, 1074, 1077, 32, 1076,
      1086, 1082, 1091, 1084, 1077, 1085, 1090, 1072>>
  >>

\* the history indicators of analyzeContextSwitch
historyKeywords ==
  <<
    \* 'ranshe govorili' (Cyrillic)
    <<1088, 1072, 1085, 1100, 1096, 1077, 32, 1075, 1086, 1074, 1086,
      1088, 1080, 1083, 1080>>,
    \* 'ranee obsuzhdali' (Cyrillic)
    <<1088, 1072, 1085, 1077, 1077, 32, 1086, 1073, 1089, 1091, 1078,
      1076, 1072, 1083, 1080>>,
    \* 'v proshloj besede' (Cyrillic)
    <<1074, 32, 1087, 1088, 1086, 1096, 1083, 1086, 1081, 32, 1073,
      1077, 1089, 1077, 1076, 1077>>,
    \* 'pomnite' (Cyrillic)
    <<1087, 1086, 1084, 1085, 1080, 1090, 1077>>,
    \* 'previously discussed'
    <<112, 114, 101, 118, 105, 111, 117, 115, 108, 121, 32, 100, 105,
      115, 99, 117, 115, 115, 101, 100>>,
    \* 'earlier conversation'
    <<101, 97, 114, 108, 105, 101, 114, 32, 99, 111, 110, 118, 101,
      114, 115, 97, 116, 105, 111, 110>>,
    \* 'we talked about'
    <<119, 101, 32, 116, 97, 108, 107, 101, 100, 32, 97, 98, 111, 117,
      116>>,
    \* 'you mentioned'
    <<121, 111, 117, 32, 109, 101, 110, 116, 105, 111, 110, 101,
      100>>,
    \* 'kak vy skazali' (Cyrillic)
    <<1082, 1072, 1082, 32, 1074, 1099, 32, 1089, 1082, 1072, 1079,
      1072, 1083, 1080>>,
    \* 'prodolzhim temu' (Cyrillic)
    <<1087, 1088, 1086, 1076, 1086, 1083, 1078, 1080, 1084, 32, 1090,
      1077, 1084, 1091>>
  >>

\* the agent-task indicators of analyzeContextSwitch
agentTaskKeywords ==
  <<
    \* 'specialist po' (Cyrillic)
    <<1089, 1087, 1077, 1094, 1080, 1072, 1083, 1080, 1089, 1090, 32,
      1087, 1086>>,
    \* 'ekspert v' (Cyrillic)
    <<1101, 1082, 1089, 1087, 1077, 1088, 1090, 32, 1074>>,
    \* 'kto mozhet pomoch s' (Cyrillic)
    <<1082, 1090, 1086, 32, 1084, 1086, 1078, 1077, 1090, 32, 1087,
      1086, 1084, 1086, 1095, 1100, 32, 1089>>,
    \* 'specialist in'
    <<115, 112, 101, 99, 105, 97, 108, 105, 115, 116, 32, 105, 110>>,
    \* 'expert in'
    <<101, 120, 112, 101, 114, 116, 32, 105, 110>>,
    \* 'who can help with'
    <<119, 104, 111, 32, 99, 97, 110, 32, 104, 101, 108, 112, 32, 119,
      105, 116, 104>>,
    \* 'nuzhen sovet po' (Cyrillic)
    <<1085, 1091, 1078, 1077, 1085, 32, 1089, 1086, 1074, 1077, 1090,
      32, 1087, 1086>>,
    \* 'konsultaciya po' (Cyrillic)
    <<1082, 1086, 1085, 1089, 1091, 1083, 1100, 1090, 1072, 1094,
      1080, 1103, 32, 1087, 1086>>
  >>

\* the technical indicators of analyzeContextSwitch; 'API' is written in
\* upper case and is compared with the lower-cased message
technicalKeywords ==
  <<
    \* 'kod' (Cyrillic)
    <<1082, 1086, 1076>>,
    \* 'programmirovanie' (Cyrillic)
    <<1087, 1088, 1086, 1075, 1088, 1072, 1084, 1084, 1080, 1088,
      1086, 1074, 1072, 1085, 1080, 1077>>,
    \* 'oshibka' (Cyrillic)
    <<1086, 1096, 1080, 1073, 1082, 1072>>,
    \* 'bag' (Cyrillic)
    <<1073, 1072, 1075>>,
    \* 'API'
    <<65, 80, 73>>,
    \* 'code'
    <<99, 111, 100, 101>>,
    \* 'programming'
    <<112, 114, 111, 103, 114, 97, 109, 109, 105, 110, 103>>,
    \* 'error'
    <<101, 114, 114, 111, 114>>,
    \* 'bug'
    <<98, 117, 103>>,
    \* 'development'
    <<100, 101, 118, 101, 108, 111, 112, 109, 101, 110, 116>>,
    \* 'funkciya' (Cyrillic)
    <<1092, 1091, 1085, 1082, 1094, 1080, 1103>>,
    \* 'algoritm' (Cyrillic)
    <<1072, 1083, 1075, 1086, 1088, 1080, 1090, 1084>>,
    \* 'baza dannyh' (Cyrillic)
    <<1073, 1072, 1079, 1072, 32, 1076, 1072, 1085, 1085, 1099, 1093>>
  >>

\* the document words of analyzeCurrentContextEffectiveness
docKeywords ==
  <<
    \* 'dokument' (Cyrillic)
    <<1076, 1086, 1082, 1091, 1084, 1077, 1085, 1090>>,
    \* 'fajl' (Cyrillic)
    <<1092, 1072, 1081, 1083>>,
    \* 'pdf'
    <<112, 100, 102>>,
    \* 'document'
    <<100, 111, 99, 117, 109, 101, 110, 116>>,
    \* 'file'
    <<102, 105, 108, 101>>
  >>

\* the history words of analyzeCurrentContextEffectiveness (its local
\* historyKeywords)
effectivenessHistoryKeywords ==
  <<
    \* 'ranshe' (Cyrillic)
    <<1088, 1072, 1085, 1100, 1096, 1077>>,
    \* 'ranee' (Cyrillic)
    <<1088, 1072, 1085, 1077, 1077>>,
    \* 'pomnite' (Cyrillic)
    <<1087, 1086, 1084, 1085, 1080, 1090, 1077>>,
    \* 'previously'
    <<112, 114, 101, 118, 105, 111, 117, 115, 108, 121>>,
    \* 'earlier'
    <<101, 97, 114, 108, 105, 101, 114>>
  >>

\* the messages handed to analyzeContextSwitch in the model: one per
\* keyword family, words that only the effectiveness check knows, a
\* message that matches nothing, and one that only classifySupportTicket
\* reacts to
ContextMessages ==
  <<
    \* 'pdf'
    <<112, 100, 102>>,
    \* 'pomnite' (Cyrillic)
    <<1087, 1086, 1084, 1085, 1080, 1090, 1077>>,
    \* 'hello'
    <<104, 101, 108, 108, 111>>,
    \* 'bug'
    <<98, 117, 103>>,
    \* 'dokument' (Cyrillic)
    <<1076, 1086, 1082, 1091, 1084, 1077, 1085, 1090>>,
    \* 'ranshe' (Cyrillic)
    <<1088, 1072, 1085, 1100, 1096, 1077>>,
    \* 'expert in'
    <<101, 120, 112, 101, 114, 116, 32, 105, 110>>,
    \* 'critical'
    <<99, 114, 105, 116, 105, 99, 97, 108>>
  >>

\* `minutesSinceSwitch < 5`: a switch younger than this counts as recent
RecentSwitchMinutes == 5

\* the results `findRelevantDocuments` can return for the chat: the chat's
\* document_ids, the user's documents, or nothing
DocumentInputs == { << >>, <<"doc1">> }

\* p_chat_id arguments of switch_conversation_context
SessionChatInputs == {"chat1", "chat2"}

\* p_new_context arguments of switch_conversation_context
SessionContextInputs == {"general", "rag"}

\* `session_end IS NULL`
NoTime == -1

\* `useState<ConversationContext | null>(null)`: no context
NoContext ==
  [ currentContext |-> "none", activeDocuments |-> << >>,
    lastSwitchTime |-> 0 ]

\* the record of an analyzeContextSwitch call that has not happened
NoAnalysis ==
  [ outcome |-> "none", message |-> << >>, passed |-> NoContext,
    shouldSwitch |-> FALSE, newContext |-> "general", confidence |-> 0,
    suggestedDocuments |-> << >>, time |-> 0, executed |-> FALSE ]

\* what is kept of the call before the last one
NoPrevious ==
  [ outcome |-> "none", shouldSwitch |-> FALSE, time |-> 0,
    executed |-> FALSE ]

\* the locals of analyzeContextSwitch as declared: `shouldSwitch = false`,
\* `newContext = 'general'`, `confidence = 0.5` (in hundredths)
SwitchLocals ==
  [ outcome |-> "returned", shouldSwitch |-> FALSE, newContext |-> "general",
    confidence |-> 50, suggestedDocuments |-> << >> ]

\* the roles of which the agents table holds an agent
RolesWithAgents == {"support"}

\* `supportAgents[0]?.id`: the first agent of the role classifyIntent
\* looked up, undefined when it looked nobody up or the role has no agent
SuggestedAgentId(intentResult) ==
  IF intentResult.suggestedAgentRole \in RolesWithAgents
  THEN intentResult.suggestedAgentRole
  ELSE Undefined

\* `keywords.some(keyword => lowerMessage.includes(keyword))` for every
\* keyword list of the hook, and the result of classifyIntent under either
\* module, worked out once for every message of ContextMessages
KeywordMatches ==
  [ i \in 1..Len(ContextMessages) |->
      LET lowerMessage == ToLowerCase(ContextMessages[i])
      IN [ document |-> SomeIncluded(documentKeywords, lowerMessage),
           history |-> SomeIncluded(historyKeywords, lowerMessage),
           agentTask |-> SomeIncluded(agentTaskKeywords, lowerMessage),
           technical |-> SomeIncluded(technicalKeywords, lowerMessage),
           doc |-> SomeIncluded(docKeywords, lowerMessage),
           effectivenessHistory |->
             SomeIncluded(effectivenessHistoryKeywords, lowerMessage),
           intent |->
             [ module \in UseAgentsModules |->
                 classifyIntent(ContextMessages[i], module) ] ] ]

\* the entry of KeywordMatches for a message
MatchesOf(msg) ==
  KeywordMatches[CHOOSE i \in 1..Len(ContextMessages) :
                   ContextMessages[i] = msg]

\* the keyword chain of analyzeContextSwitch: document, else history, else
\* agent-task or technical; in the last branch `await classifyIntent(...)`
\* may reject, and analyzeContextSwitch (try/finally without catch) then
\* rejects too
KeywordSwitch(msg, docs, module) ==
  LET matches == MatchesOf(msg)
  IN
  IF matches.document
  THEN [ SwitchLocals EXCEPT !.shouldSwitch = TRUE, !.newContext = "rag",
                             !.confidence = 85,
                             !.suggestedDocuments = docs ]
  ELSE IF matches.history
  THEN [ SwitchLocals EXCEPT !.shouldSwitch = TRUE,
                             !.newContext = "history",
                             !.confidence = 80 ]
  ELSE IF matches.agentTask \/ matches.technical
  THEN LET intentResult == matches.intent[module]
       IN IF intentResult.outcome = "threw"
          THEN [ SwitchLocals EXCEPT !.outcome = "threw" ]
          ELSE IF SuggestedAgentId(intentResult) # Undefined
          THEN [ SwitchLocals EXCEPT
                   !.shouldSwitch = TRUE, !.newContext = "agent",
                   !.confidence = intentResult.confidence ]
          ELSE SwitchLocals
  ELSE SwitchLocals

\* analyzeCurrentContextEffectiveness at time t; score and confidence in
\* hundredths.  The two content checks assign the score, they do not
\* subtract from it
analyzeCurrentContextEffectiveness(context, newMessage, t) ==
  LET minutesSinceSwitch == t - context.lastSwitchTime
      matches == MatchesOf(newMessage)
      start == [ score |-> IF minutesSinceSwitch < RecentSwitchMinutes
                           THEN 70 + 20 ELSE 70,
                 suggestedContext |-> context.currentContext,
                 confidence |-> 50 ]
  IN
  IF context.currentContext = "rag"
  THEN IF /\ ~matches.doc
          /\ Len(context.activeDocuments) = 0
       THEN [ score |-> 40, suggestedContext |-> "general",
              confidence |-> 70 ]
       ELSE start
  ELSE IF context.currentContext = "history"
  THEN IF ~matches.effectivenessHistory
       THEN [ score |-> 50, suggestedContext |-> "general",
              confidence |-> 60 ]
       ELSE start
  ELSE start

\* the check `if (currentChatContext && !shouldSwitch)` and what follows
EffectivenessSwitch_NeverSwitches(r, msg, currentChatContext, t) ==
  r

EffectivenessSwitch(r, msg, currentChatContext, t) ==
  IF r.outcome = "returned" /\ currentChatContext # NoContext
     /\ ~r.shouldSwitch
  THEN LET contextEffectiveness ==
             analyzeCurrentContextEffectiveness(currentChatContext, msg, t)
       IN IF contextEffectiveness.score < 60
          THEN [ r EXCEPT !.shouldSwitch = TRUE,
                          !.newContext = contextEffectiveness.suggestedContext,
                          !.confidence = contextEffectiveness.confidence ]
          ELSE r
  ELSE r

analyzeContextSwitch(msg, docs, currentChatContext, module, t) ==
  EffectivenessSwitch(KeywordSwitch(msg, docs, module),
                      msg, currentChatContext, t)

\* the hook as mounted, the tables as the migration creates them
ContextIdle ==
  /\ now = 0
  /\ currentContext = NoContext
  /\ chatMeta = NoContext
  /\ context_switches = << >>
  /\ conversation_contexts = << >>
  /\ analysis = NoAnalysis
  /\ previous = NoPrevious

\* time passes: a minute less than a recent switch lasts, or that long
Tick ==
  /\ \E d \in {RecentSwitchMinutes - 1, RecentSwitchMinutes} :
       /\ now + d <= MaxClock
       /\ now' = now + d
  /\ UNCHANGED <<currentContext, chatMeta, context_switches,
                 conversation_contexts, analysis, previous>>
  /\ UNCHANGED nonContextVars

\* a component calls analyzeContextSwitch for chat1 with a message and the
\* hook's current context (`currentContext || undefined`)
AnalyzeContextSwitch ==
  /\ \E i \in 1..Len(ContextMessages), docs \in DocumentInputs :
       LET msg == ContextMessages[i]
           r == analyzeContextSwitch(msg, docs, currentContext,
                                     useAgentsModule, now)
       IN analysis' =
            [ outcome |-> r.outcome, message |-> msg,
              passed |-> currentContext,
              shouldSwitch |-> r.shouldSwitch, newContext |-> r.newContext,
              confidence |-> r.confidence,
              suggestedDocuments |-> r.suggestedDocuments,
              time |-> now, executed |-> FALSE ]
  /\ previous' = [ outcome |-> analysis.outcome,
                    shouldSwitch |-> analysis.shouldSwitch,
                    time |-> analysis.time,
                    executed |-> analysis.executed ]
  /\ UNCHANGED <<now, currentContext, chatMeta, context_switches,
                 conversation_contexts>>
  /\ UNCHANGED nonContextVars

\* the component calls executeContextSwitch with the result it received
\* (`if (contextResult.shouldSwitch)`)
ExecuteContextSwitch ==
  /\ analysis.outcome = "returned"
  /\ analysis.shouldSwitch
  /\ ~analysis.executed
  /\ Len(context_switches) < MaxSwitches
  /\ LET newContext ==
           [ currentContext |-> analysis.newContext,
             activeDocuments |-> analysis.suggestedDocuments,
             lastSwitchTime |-> now ]
     IN /\ chatMeta' = newContext
        /\ context_switches' =
             Append(context_switches,
                    [ chat_id |-> "chat1",
                      from_context |->
                        IF currentContext = NoContext THEN "general"
                        ELSE currentContext.currentContext,
                      to_context |-> analysis.newContext ])
        /\ currentContext' = newContext
  /\ analysis' = [ analysis EXCEPT !.executed = TRUE ]
  /\ UNCHANGED <<now, conversation_contexts, previous>>
  /\ UNCHANGED nonContextVars

\* the UPDATE of switch_conversation_context: every active session of the
\* chat is ended
EndActiveSessions_KeepsThemOpen(rows, p_chat_id, t) ==
  rows

EndActiveSessions(rows, p_chat_id, t) ==
  [ i \in 1..Len(rows) |->
      IF rows[i].chat_id = p_chat_id /\ rows[i].session_end = NoTime
      THEN [ rows[i] EXCEPT !.session_end = t ]
      ELSE rows[i] ]

\* `RETURNING id, context_type INTO ...`: the context of an ended session,
\* NULL when none was active
OldContext(rows, p_chat_id) ==
  LET active == { i \in 1..Len(rows) :
                    rows[i].chat_id = p_chat_id
                    /\ rows[i].session_end = NoTime }
  IN IF active = {} THEN Undefined
     ELSE rows[CHOOSE i \in active : \A j \in active : i <= j].context_type

\* the database function switch_conversation_context, one transaction
SwitchConversationContext ==
  /\ Len(context_switches) < MaxSwitches
  /\ \E p_chat_id \in SessionChatInputs,
        p_new_context \in SessionContextInputs :
       LET old_context == OldContext(conversation_contexts, p_chat_id)
       IN /\ conversation_contexts' =
               Append(EndActiveSessions(conversation_contexts, p_chat_id,
                                        now),
                      [ chat_id |-> p_chat_id,
                        context_type |-> p_new_context,
                        session_start |-> now,
                        session_end |-> NoTime ])
          /\ context_switches' =
               Append(context_switches,
                      [ chat_id |-> p_chat_id,
                        from_context |->
                          IF old_context = Undefined THEN "general"
                          ELSE old_context,
                        to_context |-> p_new_context ])
  /\ UNCHANGED <<now, currentContext, chatMeta, analysis, previous>>
  /\ UNCHANGED nonContextVars

(***************************************************************************)
(* Part 5: self-improving agents: the hook useSelfImprovingAgents          *)
(* (collectFeedback, analyzeFeedbackForImprovement,                        *)
(* suggestPromptImprovement, generateImprovedPrompt) and the agents edge   *)
(* function (POST /feedback, PATCH).                                       *)
(***************************************************************************)

\* the keywords of the issue 'accuracy' in identifyCommonIssues
accuracyPatterns ==
  <<
    \* 'netochno' (Cyrillic)
    <<1085, 1077, 1090, 1086, 1095, 1085, 1086>>,
    \* 'nepravilno' (Cyrillic)
    <<1085, 1077, 1087, 1088, 1072, 1074, 1080, 1083, 1100, 1085,
      1086>>,
    \* 'oshibka' (Cyrillic)
    <<1086, 1096, 1080, 1073, 1082, 1072>>,
    \* 'incorrect'
    <<105, 110, 99, 111, 114, 114, 101, 99, 116>>,
    \* 'wrong'
    <<119, 114, 111, 110, 103>>
  >>

\* the keywords of the issue 'clarity' in identifyCommonIssues
clarityPatterns ==
  <<
    \* 'neponyatno' (Cyrillic)
    <<1085, 1077, 1087, 1086, 1085, 1103, 1090, 1085, 1086>>,
    \* 'slozhno' (Cyrillic)
    <<1089, 1083, 1086, 1078, 1085, 1086>>,
    \* 'unclear'
    <<117, 110, 99, 108, 101, 97, 114>>,
    \* 'confusing'
    <<99, 111, 110, 102, 117, 115, 105, 110, 103>>
  >>

\* the keywords of the issue 'completeness' in identifyCommonIssues
completenessPatterns ==
  <<
    \* 'nepolno' (Cyrillic)
    <<1085, 1077, 1087, 1086, 1083, 1085, 1086>>,
    \* 'ne hvataet' (Cyrillic)
    <<1085, 1077, 32, 1093, 1074, 1072, 1090, 1072, 1077, 1090>>,
    \* 'incomplete'
    <<105, 110, 99, 111, 109, 112, 108, 101, 116, 101>>,
    \* 'missing'
    <<109, 105, 115, 115, 105, 110, 103>>
  >>

\* the keywords of the issue 'relevance' in identifyCommonIssues
relevancePatterns ==
  <<
    \* 'ne po teme' (Cyrillic)
    <<1085, 1077, 32, 1087, 1086, 32, 1090, 1077, 1084, 1077>>,
    \* 'irrelevant'
    <<105, 114, 114, 101, 108, 101, 118, 97, 110, 116>>,
    \* 'off-topic'
    <<111, 102, 102, 45, 116, 111, 112, 105, 99>>
  >>

\* the keywords of the issue 'tone' in identifyCommonIssues
tonePatterns ==
  <<
    \* 'grubo' (Cyrillic)
    <<1075, 1088, 1091, 1073, 1086>>,
    \* 'nevezhlivo' (Cyrillic)
    <<1085, 1077, 1074, 1077, 1078, 1083, 1080, 1074, 1086>>,
    \* 'rude'
    <<114, 117, 100, 101>>,
    \* 'impolite'
    <<105, 109, 112, 111, 108, 105, 116, 101>>
  >>

\* the user_feedback texts of the model: two that mention an accuracy
\* keyword (one of them in upper case), the text of the quick praise
\* button, one that mentions a clarity keyword and one without keyword
FeedbackTexts ==
  <<
    \* 'nepravilno' (Cyrillic)
    <<1085, 1077, 1087, 1088, 1072, 1074, 1080, 1083, 1100, 1085,
      1086>>,
    \* 'Wrong answer'
    <<87, 114, 111, 110, 103, 32, 97, 110, 115, 119, 101, 114>>,
    \* 'Otlichnyj otvet! Imenno to, chto nuzhno.' (Cyrillic)
    <<1054, 1090, 1083, 1080, 1095, 1085, 1099, 1081, 32, 1086, 1090,
      1074, 1077, 1090, 33, 32, 1048, 1084, 1077, 1085, 1085, 1086,
      32, 1090, 1086, 44, 32, 1095, 1090, 1086, 32, 1085, 1091, 1078,
      1085, 1086, 46>>,
    \* 'unclear'
    <<117, 110, 99, 108, 101, 97, 114>>,
    \* 'too long'
    <<116, 111, 111, 32, 108, 111, 110, 103>>
  >>

\* the issues of identifyCommonIssues, in the order of its `patterns` object
IssuePatterns ==
  << [ issue |-> "accuracy", keywords |-> accuracyPatterns ],
     [ issue |-> "clarity", keywords |-> clarityPatterns ],
     [ issue |-> "completeness", keywords |-> completenessPatterns ],
     [ issue |-> "relevance", keywords |-> relevancePatterns ],
     [ issue |-> "tone", keywords |-> tonePatterns ] >>

\* `.limit(10)`: the number of feedback records one analysis reads
RecentLimit == 10

\* `recentFeedback.length < 3`: fewer records than this are not analysed
MinFeedback == 3

\* a JavaScript number (IEEE 754 double) below 16 is the integer
\* hi * Limb + lo, counted in units of 2^-53
Limb == 67108864

DoubleZero == [ hi |-> 0, lo |-> 0 ]

\* the doubles nearest to 0.5, 0.7 and 0.9; confidence scores are kept in
\* hundredths in the rows and become doubles when the response is parsed
ToDouble(hundredths) ==
  CASE hundredths = 50 -> [ hi |-> 67108864, lo |-> 0 ]
    [] hundredths = 70 -> [ hi |-> 93952409, lo |-> 40265318 ]
    [] hundredths = 90 -> [ hi |-> 120795955, lo |-> 13421773 ]

\* the spacing of the doubles around x, in units of 2^-53: 1 below 1.0,
\* 2 below 2.0, 4 below 4.0, 8 below 8.0, 16 below 16.0
DoubleSpacing(x) ==
  IF x.hi < 134217728 THEN 1
  ELSE IF x.hi < 268435456 THEN 2
  ELSE IF x.hi < 536870912 THEN 4
  ELSE IF x.hi < 1073741824 THEN 8
  ELSE 16

\* round to nearest, ties to even
DoubleRound(x) ==
  LET g == DoubleSpacing(x)
      r == x.lo % g
      up == \/ 2 * r > g
            \/ 2 * r = g /\ (x.lo \div g) % 2 = 1
      lo == IF up THEN x.lo - r + g ELSE x.lo - r
  IN IF lo = Limb THEN [ hi |-> x.hi + 1, lo |-> 0 ]
     ELSE [ hi |-> x.hi, lo |-> lo ]

\* `a + b` on doubles
DoubleAdd(a, b) ==
  LET lo == a.lo + b.lo
  IN DoubleRound([ hi |-> a.hi + b.hi + (lo \div Limb), lo |-> lo % Limb ])

\* `a / k` on doubles, k a small integer and the quotient in [0.5, 1)
DoubleDiv(a, k) ==
  LET t == (a.hi % k) * Limb + a.lo
      q == t \div k
      r == t % k
      up == \/ 2 * r > k
            \/ 2 * r = k /\ q % 2 = 1
      lo == IF up THEN q + 1 ELSE q
  IN IF lo = Limb THEN [ hi |-> (a.hi \div k) + 1, lo |-> 0 ]
     ELSE [ hi |-> a.hi \div k, lo |-> lo ]

\* `a < b` on doubles
DoubleLess(a, b) == a.hi < b.hi \/ (a.hi = b.hi /\ a.lo < b.lo)

\* `feedback.reduce((sum, f) => sum + f.confidence_score, 0)`
RECURSIVE ConfidenceSum(_, _)
ConfidenceSum(feedback, n) ==
  IF n = 0 THEN DoubleZero
  ELSE DoubleAdd(ConfidenceSum(feedback, n - 1),
                 ToDouble(feedback[n].confidence_score))

\* the sum of the confidence scores as a number of hundredths
RECURSIVE ConfidenceTotal(_, _)
ConfidenceTotal(feedback, n) ==
  IF n = 0 THEN 0
  ELSE ConfidenceTotal(feedback, n - 1) + feedback[n].confidence_score

\* the pieces a system prompt is made of
Piece(kind, n, text) == [ kind |-> kind, n |-> n, text |-> text ]

\* the system prompt the agent was created with
BasePrompt == << Piece("base", 0, 0) >>

\* a system prompt sent to the PATCH endpoint
PatchedPrompt == << Piece("patched", 0, 0) >>

\* `a.startsWith(p)` on prompts
IsPrefix(p, a) == Len(p) <= Len(a) /\ SubSeq(a, 1, Len(p)) = p

\* the feedback a user can record: feedback_type, user_feedback (an index
\* of FeedbackTexts) and confidence_score (in hundredths)
FeedbackInputs ==
  { [ feedback_type |-> "correction", user_feedback |-> 1,
      confidence_score |-> 70 ],
    [ feedback_type |-> "correction", user_feedback |-> 2,
      confidence_score |-> 90 ],
    [ feedback_type |-> "praise", user_feedback |-> 3,
      confidence_score |-> 90 ],
    [ feedback_type |-> "praise", user_feedback |-> 3,
      confidence_score |-> 70 ],
    [ feedback_type |-> "improvement", user_feedback |-> 4,
      confidence_score |-> 50 ] }

\* the rows of agent_feedback as they are when the hook is first used: an
\* agent without feedback, or one with ten rows inserted directly (as the
\* migration inserts its examples): four corrections, then six praises
TenRows ==
  [ i \in 1..10 |->
      IF i <= 4
      THEN [ id |-> i, feedback_type |-> "correction", user_feedback |-> 5,
             confidence_score |-> 90 ]
      ELSE [ id |-> i, feedback_type |-> "praise", user_feedback |-> 3,
             confidence_score |-> 90 ] ]

FeedbackTables == { << >>, TenRows }

\* `.order('created_at', { ascending: false }).limit(10)`: the newest rows
\* first
RecentFeedback(rows) ==
  LET n == IF Len(rows) < RecentLimit THEN Len(rows) ELSE RecentLimit
  IN [ i \in 1..n |-> rows[Len(rows) + 1 - i] ]

\* `keywords.some(keyword => text.includes(keyword))` on the lower-cased
\* text, worked out once for every text of FeedbackTexts and every
\* pattern of IssuePatterns
MentionedPatterns ==
  [ t \in 1..Len(FeedbackTexts) |->
      { k \in 1..Len(IssuePatterns) :
          SomeIncluded(IssuePatterns[k].keywords,
                       ToLowerCase(FeedbackTexts[t])) } ]

\* the same on the user_feedback of a record, for the keywords of one of
\* the patterns
Mentions(f, keywords) ==
  \E k \in MentionedPatterns[f.user_feedback] :
    IssuePatterns[k].keywords = keywords

\* identifyCommonIssues: the issues mentioned by two or more records
identifyCommonIssues(feedback) ==
  LET matchCount(p) ==
        Cardinality({ i \in 1..Len(feedback) :
                        Mentions(feedback[i], p.keywords) })
      found == SelectSeq(IssuePatterns, LAMBDA p : matchCount(p) >= 2)
  IN [ i \in 1..Len(found) |-> found[i].issue ]

\* `f.feedback_type === 'correction' || f.feedback_type === 'improvement'`
NegativeFeedback(feedback) ==
  Cardinality({ i \in 1..Len(feedback) :
                  feedback[i].feedback_type \in {"correction", "improvement"} })

\* analyzeAggregatedFeedback; `negativeFeedback / totalFeedback > 0.3`
\* compares the double nearest to the quotient with the double nearest to
\* 0.3, which decides as 10 * negative > 3 * total does for totals up to
\* ten; the average is the double sum divided by the total
analyzeAggregatedFeedback(feedback) ==
  LET totalFeedback == Len(feedback)
      negativeFeedback == NegativeFeedback(feedback)
      averageConfidence ==
        DoubleDiv(ConfidenceSum(feedback, totalFeedback), totalFeedback)
      commonIssues == identifyCommonIssues(feedback)
  IN [ shouldImprove |->
         \/ 10 * negativeFeedback > 3 * totalFeedback
         \/ DoubleLess(averageConfidence, ToDouble(70))
         \/ Len(commonIssues) > 0,
       commonIssues |-> commonIssues ]

\* generateImprovedPrompt: a section per common issue, then the
\* corrections of the analysed records, numbered
generateImprovedPrompt_StartsAfresh(agentPrompt, feedback, commonIssues) ==
  LET corrections ==
        SelectSeq(feedback, LAMBDA f : f.feedback_type = "correction")
  IN [ prompt |->
         [ i \in 1..Len(commonIssues) |-> Piece(commonIssues[i], 0, 0) ]
         \o (IF Len(corrections) > 0
             THEN << Piece("corrections", 0, 0) >>
                  \o [ i \in 1..Len(corrections) |->
                         Piece("item", i, corrections[i].user_feedback) ]
             ELSE << >>),
       reason |->
         commonIssues
         \o (IF Len(corrections) > 0 THEN << "corrections" >> ELSE << >>) ]

generateImprovedPrompt(agentPrompt, feedback, commonIssues) ==
  LET corrections ==
        SelectSeq(feedback, LAMBDA f : f.feedback_type = "correction")
  IN [ prompt |->
         agentPrompt
         \o [ i \in 1..Len(commonIssues) |-> Piece(commonIssues[i], 0, 0) ]
         \o (IF Len(corrections) > 0
             THEN << Piece("corrections", 0, 0) >>
                  \o [ i \in 1..Len(corrections) |->
                         Piece("item", i, corrections[i].user_feedback) ]
             ELSE << >>),
       reason |->
         commonIssues
         \o (IF Len(corrections) > 0 THEN << "corrections" >> ELSE << >>) ]

\* `const { updateAgent, getAgentById } = useAgents()`: a function, or
\* undefined
GetAgentByIdDefined(module) ==
  "getAgentById" \in
     (IF module = "useAgents.tsx" THEN UseAgentsApi ELSE UseAgentsApiAlt)

\* the record of a feedback operation that has not happened
NoFeedbackCall ==
  [ op |-> "none", calls |-> 0, prePrompt |-> BasePrompt, preLogs |-> 0,
    analysed |-> 0, called |-> FALSE ]

\* the agent as created, the feedback table in one of its first states, no
\* improvement logged
FeedbackIdle ==
  /\ system_prompt = BasePrompt
  /\ agent_feedback = << >>
  /\ prompt_improvement_logs = << >>
  /\ feedbackLast = NoFeedbackCall

FeedbackMounted ==
  /\ system_prompt = BasePrompt
  /\ agent_feedback \in FeedbackTables
  /\ prompt_improvement_logs = << >>
  /\ feedbackLast = NoFeedbackCall

\* collectFeedback with what it awaits: the insert,
\* analyzeFeedbackForImprovement and, when that decides so,
\* suggestPromptImprovement.  Calling the undefined getAgentById throws;
\* analyzeFeedbackForImprovement catches and logs what
\* suggestPromptImprovement rethrows, and collectFeedback returns the row
CollectFeedback ==
  /\ feedbackLast.calls < MaxFeedback
  /\ \E f \in FeedbackInputs :
       LET data == [ id |-> Len(agent_feedback) + 1,
                     feedback_type |-> f.feedback_type,
                     user_feedback |-> f.user_feedback,
                     confidence_score |-> f.confidence_score ]
           rows == Append(agent_feedback, data)
           recentFeedback == RecentFeedback(rows)
           enough == Len(recentFeedback) >= MinFeedback
           feedbackAnalysis == analyzeAggregatedFeedback(recentFeedback)
           called == enough /\ feedbackAnalysis.shouldImprove
           improvedPrompt ==
             generateImprovedPrompt(system_prompt, recentFeedback,
                                    feedbackAnalysis.commonIssues)
       IN /\ agent_feedback' = rows
          /\ IF called /\ GetAgentByIdDefined(useAgentsModule)
             THEN /\ prompt_improvement_logs' =
                       Append(prompt_improvement_logs,
                              [ old_prompt |-> system_prompt,
                                new_prompt |-> improvedPrompt.prompt,
                                improvement_reason |-> improvedPrompt.reason,
                                feedback_ids |->
                                  [ i \in 1..Len(recentFeedback) |->
                                      recentFeedback[i].id ] ])
                  /\ system_prompt' = improvedPrompt.prompt
             ELSE UNCHANGED <<prompt_improvement_logs, system_prompt>>
          /\ feedbackLast' =
               [ op |-> "collectFeedback", calls |-> feedbackLast.calls + 1,
                 prePrompt |-> system_prompt,
                 preLogs |-> Len(prompt_improvement_logs),
                 analysed |-> IF enough THEN Len(recentFeedback) ELSE 0,
                 called |-> called ]
  /\ UNCHANGED nonFeedbackVars

\* the agents edge function, POST /feedback with { agentId, correction }:
\* the correction is appended to the agent's prompt
PostFeedback ==
  /\ Cardinality({ i \in 1..Len(system_prompt) :
                     system_prompt[i].kind = "learned" }) < MaxLearned
  /\ \E correction \in {1} :
       system_prompt' =
         system_prompt \o << Piece("learned", 0, correction) >>
  /\ feedbackLast' =
       [ feedbackLast EXCEPT !.op = "postFeedback",
                             !.prePrompt = system_prompt,
                             !.preLogs = Len(prompt_improvement_logs),
                             !.analysed = 0, !.called = FALSE ]
  /\ UNCHANGED <<agent_feedback, prompt_improvement_logs>>
  /\ UNCHANGED nonFeedbackVars

\* the agents edge function, PATCH with { system_prompt }; the model
\* follows one PATCH per behaviour (a patched prompt starts with the piece
\* that was sent)
PatchAgent ==
  /\ Head(system_prompt) # Head(PatchedPrompt)
  /\ system_prompt' = PatchedPrompt
  /\ feedbackLast' =
       [ feedbackLast EXCEPT !.op = "patch",
                             !.prePrompt = system_prompt,
                             !.preLogs = Len(prompt_improvement_logs),
                             !.analysed = 0, !.called = FALSE ]
  /\ UNCHANGED <<agent_feedback, prompt_improvement_logs>>
  /\ UNCHANGED nonFeedbackVars

(***************************************************************************)
(* Part 6: the table support_tickets, its BEFORE UPDATE trigger            *)
(* check_auto_escalation and the table support_escalations.                *)
(***************************************************************************)

\* `INTERVAL '30 minutes'` and `INTERVAL '2 hours'`, in minutes
UrgentMinutes == 30

HighMinutes == 120

\* the instants the ticket clock passes through: the creation of a first
\* ticket, both sides of the two intervals after it
TicketTimes == {0, UrgentMinutes, UrgentMinutes + 1, HighMinutes,
                HighMinutes + 1}

\* priority and requires_escalation of the rows createSupportTicket
\* inserts: what classifySupportTicket returns
TicketRowInputs ==
  { [ priority |-> classifySupportTicket(TicketFragments[i]).priority,
      requires_escalation |->
        classifySupportTicket(TicketFragments[i]).requiresHumanEscalation ] :
      i \in 1..Len(TicketFragments) }

\* the SET clauses of the updates followed: a status, a priority, the
\* escalation mark, or a column the trigger does not read
TicketUpdateInputs ==
  { [ column |-> "status", value |-> "in_progress" ],
    [ column |-> "status", value |-> "open" ],
    [ column |-> "priority", value |-> "high" ],
    [ column |-> "requires_escalation", value |-> TRUE ],
    [ column |-> "metadata", value |-> 0 ] }

\* the row an UPDATE hands to the trigger as its NEW row
UpdatedRow(old_row, set) ==
  IF set.column = "status" THEN [ old_row EXCEPT !.status = set.value ]
  ELSE IF set.column = "priority" THEN [ old_row EXCEPT !.priority = set.value ]
  ELSE IF set.column = "requires_escalation"
  THEN [ old_row EXCEPT !.requires_escalation = set.value ]
  ELSE old_row

\* the time-based test of check_auto_escalation: the reason, or '' when
\* neither branch is taken
TimeEscalation(new_row, t) ==
  IF /\ new_row.priority = "urgent"
     /\ new_row.created_at < t - UrgentMinutes
     /\ new_row.status = "open"
  THEN "Urgent ticket not addressed within 30 minutes"
  ELSE IF /\ new_row.priority = "high"
          /\ new_row.created_at < t - HighMinutes
          /\ new_row.status = "open"
  THEN "High priority ticket not addressed within 2 hours"
  ELSE ""

\* escalation_reason after the complexity-based test, which alone reads
\* escalated_at; escalation_needed is true exactly when it is not ''
EscalationReason(new_row, t) ==
  IF new_row.requires_escalation /\ new_row.escalated_at = NoTime
  THEN "Ticket marked for escalation due to complexity"
  ELSE TimeEscalation(new_row, t)

\* the row check_auto_escalation returns
check_auto_escalation(new_row, t) ==
  IF EscalationReason(new_row, t) # ""
  THEN [ new_row EXCEPT !.escalated_at = t,
                    !.escalation_reason = EscalationReason(new_row, t) ]
  ELSE new_row

\* both tables as the migration creates them
EscalationIdle ==
  /\ ticketClock = 0
  /\ support_tickets = << >>
  /\ support_escalations = << >>

\* time passes
TicketTick ==
  /\ \E t \in TicketTimes :
       /\ t > ticketClock
       /\ t <= MaxTicketClock
       /\ ticketClock' = t
  /\ UNCHANGED <<support_tickets, support_escalations>>
  /\ UNCHANGED nonEscalationVars

\* the insert of createSupportTicket; no trigger runs on INSERT
InsertTicket ==
  /\ Len(support_tickets) < MaxTickets
  /\ \E r \in TicketRowInputs :
       support_tickets' =
         Append(support_tickets,
                [ priority |-> r.priority, status |-> "open",
                  requires_escalation |-> r.requires_escalation,
                  escalated_at |-> NoTime, escalation_reason |-> "",
                  created_at |-> ticketClock ])
  /\ UNCHANGED <<ticketClock, support_escalations>>
  /\ UNCHANGED nonEscalationVars

\* an UPDATE of one row of support_tickets, with auto_escalation_trigger
UpdateTicket ==
  /\ Len(support_escalations) < MaxEscalations
  /\ \E id \in 1..Len(support_tickets), set \in TicketUpdateInputs :
       LET new_row == UpdatedRow(support_tickets[id], set)
       IN /\ support_tickets' =
               [ support_tickets EXCEPT
                   ![id] = check_auto_escalation(new_row, ticketClock) ]
          /\ support_escalations' =
               IF EscalationReason(new_row, ticketClock) # ""
               THEN Append(support_escalations,
                           [ ticket_id |-> id,
                             escalation_type |-> "timeout",
                             reason |-> EscalationReason(new_row, ticketClock) ])
               ELSE support_escalations
  /\ UNCHANGED ticketClock
  /\ UNCHANGED nonEscalationVars

(***************************************************************************)
(* Part 7: ChatInterface.handleSend with what it awaits: addMessage,       *)
(* analyzeContextSwitch, executeContextSwitch, autoRouteMessage            *)
(* (createSupportTicket, assignAgentToChat) and the response generation.   *)
(***************************************************************************)

\* what supabase.functions.invoke returns for the generation request: a
\* response, or `result.error`
UpstreamOutcomes == {"ok", "error"}

\* `intentResult.intent.includes('support')`
IntentIncludesSupport(intent) ==
  intent \in {"urgent_support", "technical_support"}

\* classifySupportTicket, worked out once for every message of
\* ContextMessages
RoutedTickets ==
  [ i \in 1..Len(ContextMessages) |->
      classifySupportTicket(ContextMessages[i]) ]

\* the result of autoRouteMessage when it is not called or rejects
NotRouted ==
  [ outcome |-> "threw", createTicket |-> FALSE,
    classification |-> TicketDefaults, suggestedAgentId |-> Undefined ]

\* autoRouteMessage: classifyIntent, classifySupportTicket, then the
\* decisions to create a ticket and to assign an agent; a rejection of
\* classifyIntent is rethrown before anything is written
autoRouteMessage(msg, module) ==
  LET intentResult == MatchesOf(msg).intent[module]
      ticketClassification ==
        RoutedTickets[CHOOSE i \in 1..Len(ContextMessages) :
                        ContextMessages[i] = msg]
  IN IF intentResult.outcome = "threw"
     THEN NotRouted
     ELSE [ outcome |-> "returned",
            createTicket |->
              \/ IntentIncludesSupport(intentResult.intent)
              \/ ticketClassification.requiresHumanEscalation,
            classification |-> ticketClassification,
            suggestedAgentId |-> SuggestedAgentId(intentResult) ]

\* createSupportTicket: the row inserted into support_tickets
createSupportTicket(rows, classification, t) ==
  Append(rows,
         [ priority |-> classification.priority, status |-> "open",
           requires_escalation |-> classification.requiresHumanEscalation,
           escalated_at |-> NoTime, escalation_reason |-> "",
           created_at |-> t ])

\* the rows addMessage inserts: the user's message, the reply, and the
\* fixed text of the catch block (`meta: { error: true, ... }`)
UserRow == [ role |-> "user", sender |-> "user", error |-> FALSE ]

ReplyRow == [ role |-> "assistant", sender |-> "ai", error |-> FALSE ]

ErrorRow == [ role |-> "assistant", sender |-> "system", error |-> TRUE ]

\* what a handleSend call found before it wrote anything
SendSnapshot ==
  [ chatMeta |-> chatMeta, currentContext |-> currentContext,
    chat_type |-> chat_type, agent_ids |-> agent_ids,
    support_tickets |-> support_tickets,
    context_switches |-> context_switches,
    agent_assignments |-> agent_assignments, messages |-> messages ]

\* the record of a handleSend call that has not happened
NoSend ==
  [ sends |-> 0, failed |-> FALSE, switched |-> FALSE, routed |-> FALSE,
    pre |-> [ chatMeta |-> NoContext, currentContext |-> NoContext,
              chat_type |-> "general", agent_ids |-> << >>,
              support_tickets |-> << >>, context_switches |-> << >>,
              agent_assignments |-> << >>, messages |-> << >> ] ]

\* the component as mounted on chat1, which has no agent assigned
SendIdle ==
  /\ agent_ids = << >>
  /\ agent_assignments = << >>
  /\ isRAGEnabled = FALSE
  /\ sendLast = NoSend

\* handleSend for a non-empty input on chat1 with a provider configured and
\* multiAgentMode as mounted (false).  The user's message is stored, the
\* context switch is analysed and executed, the message is routed, the
\* response is requested, and either the reply or the error text is stored.
\* A rejection of analyzeContextSwitch or autoRouteMessage is caught by the
\* inner try, whose fallback classifyIntent writes nothing.  setIsRAGEnabled
\* takes effect at the next render, so this call still reads the old value;
\* chatType follows chats.chat_type, which useChats reloads at every
\* addMessage
HandleSend ==
  /\ sendLast.sends < MaxSends
  /\ \E i \in 1..Len(ContextMessages), docs \in DocumentInputs,
        upstream \in UpstreamOutcomes :
       LET userMessage == ContextMessages[i]
           contextResult ==
             analyzeContextSwitch(userMessage, docs, currentContext,
                                  useAgentsModule, now)
           analysed == contextResult.outcome = "returned"
           switched == analysed /\ contextResult.shouldSwitch
           newContext ==
             [ currentContext |-> contextResult.newContext,
               activeDocuments |-> contextResult.suggestedDocuments,
               lastSwitchTime |-> now ]
           routingResult ==
             IF analysed THEN autoRouteMessage(userMessage, useAgentsModule)
             ELSE NotRouted
           routed == routingResult.outcome = "returned"
           assigned == routed /\ routingResult.suggestedAgentId # Undefined
           failed == upstream = "error"
       IN /\ IF switched
             THEN /\ chatMeta' = newContext
                  /\ context_switches' =
                       Append(context_switches,
                              [ chat_id |-> "chat1",
                                from_context |->
                                  IF currentContext = NoContext
                                  THEN "general"
                                  ELSE currentContext.currentContext,
                                to_context |-> contextResult.newContext ])
                  /\ currentContext' = newContext
             ELSE UNCHANGED <<chatMeta, context_switches, currentContext>>
          /\ isRAGEnabled' =
               (isRAGEnabled \/ (switched /\ contextResult.newContext = "rag"))
          /\ support_tickets' =
               IF routed /\ routingResult.createTicket
               THEN createSupportTicket(support_tickets,
                                        routingResult.classification,
                                        ticketClock)
               ELSE support_tickets
          /\ agent_ids' =
               IF assigned THEN << routingResult.suggestedAgentId >>
               ELSE agent_ids
          /\ agent_assignments' =
               IF assigned
               THEN Append(agent_assignments,
                           [ chat_id |-> "chat1",
                             agent_id |-> routingResult.suggestedAgentId,
                             status |-> "active" ])
               ELSE agent_assignments
          /\ chat_type' =
               IF ~failed /\ chat_type # "rag" /\ isRAGEnabled THEN "rag"
               ELSE IF assigned THEN "support"
               ELSE chat_type
          /\ messages' =
               messages \o << UserRow, IF failed THEN ErrorRow ELSE ReplyRow >>
          /\ sendLast' =
               [ sends |-> sendLast.sends + 1, failed |-> failed,
                 switched |-> switched, routed |-> routed,
                 pre |-> SendSnapshot ]
  /\ UNCHANGED <<agent_conversations, last, faults>>
  /\ UNCHANGED <<intentVars, ticketVars, feedbackVars>>
  /\ UNCHANGED <<now, conversation_contexts, analysis, previous>>
  /\ UNCHANGED <<ticketClock, support_escalations>>
  /\ UNCHANGED raceVars
  /\ UNCHANGED chunkVars

(***************************************************************************)
(* Part 8: continueConversation requests that run at the same time on one  *)
(* conversation.  Each request is followed through its awaits: the select  *)
(* of the row, the insert of the message, the update of the state.         *)
(***************************************************************************)

\* the requests in flight
Requests == 1..MaxRequests

\* <<agentIds, maxTurns>> of the conversation the requests are made on, as
\* startMultiAgentConversation created it
RaceStartInputs ==
  { << <<"A", "B">>, 2 >>,
    << <<"A", "B">>, DefaultMaxTurns >>,
    << <<"A", "B", "C">>, DefaultMaxTurns >> }

\* a request that has not been made
NoRequest ==
  [ pc |-> "idle", entry |-> "none", state |-> NoState,
    agent |-> Undefined, written |-> NoState, ok |-> FALSE, turn |-> 0 ]

\* the state an update is computed from: `...state` spreads the state the
\* request selected at its start, whatever the row holds by now
TurnBase_Stored(readState, storedState) == storedState

TurnBase(readState, storedState) == readState

\* the updatedState literal of a request; the text of the turn is the
\* request's own (generateAgentMessage for the edge function, the caller's
\* for the hook)
RaceUpdatedState(entry, base, agentId, text) ==
  LET updatedState == IF entry = "edge" THEN EdgeUpdatedState(base, agentId)
                      ELSE HookUpdatedState(base, agentId)
  IN [ updatedState EXCEPT !.messages[Len(updatedState.messages)].content =
                             text ]

\* one conversation created by the edge function, no request made
RaceIdle ==
  /\ raceConversation =
       [ status |-> "active",
         conversation_state |-> EdgeInitialState(<<"A", "B">>, 2) ]
  /\ raceMessages = << >>
  /\ requests = [ p \in Requests |-> NoRequest ]

RaceStarted ==
  /\ \E input \in RaceStartInputs :
       raceConversation =
         [ status |-> "active",
           conversation_state |-> EdgeInitialState(input[1], input[2]) ]
  /\ raceMessages = << >>
  /\ requests = [ p \in Requests |-> NoRequest ]

\* the edge function up to its first write: the select of the row, the
\* check of the state, the choice of the agent
EdgeSelect(p) ==
  /\ requests[p].pc = "idle"
  /\ LET state == raceConversation.conversation_state
     IN requests' =
          [ requests EXCEPT ![p] =
              IF NotActive(state)
              THEN [ NoRequest EXCEPT !.pc = "done", !.entry = "edge",
                                      !.state = state ]
              ELSE [ NoRequest EXCEPT
                       !.pc = "selected", !.entry = "edge", !.state = state,
                       !.agent = state.agents[NextAgentIndex(state)] ] ]
  /\ UNCHANGED <<raceConversation, raceMessages>>
  /\ UNCHANGED nonRaceVars

\* `.from('messages').insert(...)` of the edge function
EdgeInsertMessage(p) ==
  /\ requests[p].pc = "selected"
  /\ requests[p].entry = "edge"
  /\ raceMessages' =
       Append(raceMessages,
              AgentMessageRow(requests[p].agent, 1, p))
  /\ requests' = [ requests EXCEPT ![p].pc = "inserted" ]
  /\ UNCHANGED raceConversation
  /\ UNCHANGED nonRaceVars

\* `.update({ conversation_state: updatedState }).eq('id', conversationId)`
\* and the response of the edge function
EdgeUpdate(p) ==
  /\ requests[p].pc = "inserted"
  /\ LET updatedState ==
           RaceUpdatedState("edge",
                            TurnBase(requests[p].state,
                                     raceConversation.conversation_state),
                            requests[p].agent, p)
     IN /\ raceConversation' =
             [ raceConversation EXCEPT !.conversation_state = updatedState ]
        /\ requests' =
             [ requests EXCEPT ![p].pc = "done", ![p].ok = TRUE,
                               ![p].written = updatedState,
                               ![p].turn = updatedState.currentTurn ]
  /\ UNCHANGED raceMessages
  /\ UNCHANGED nonRaceVars

\* the hook's continueConversation up to its write: the select of the row
HookSelect(p) ==
  /\ requests[p].pc = "idle"
  /\ \E agentId \in HookAgentInputs :
       requests' =
         [ requests EXCEPT ![p] =
             [ NoRequest EXCEPT
                 !.pc = "selected", !.entry = "hook",
                 !.state = raceConversation.conversation_state,
                 !.agent = agentId ] ]
  /\ UNCHANGED <<raceConversation, raceMessages>>
  /\ UNCHANGED nonRaceVars

\* the update of the hook: conversation_state and the status column
HookUpdate(p) ==
  /\ requests[p].pc = "selected"
  /\ requests[p].entry = "hook"
  /\ LET updatedState ==
           RaceUpdatedState("hook",
                            TurnBase(requests[p].state,
                                     raceConversation.conversation_state),
                            requests[p].agent, p)
     IN /\ raceConversation' =
             [ status |-> updatedState.status,
               conversation_state |-> updatedState ]
        /\ requests' =
             [ requests EXCEPT ![p].pc = "done", ![p].ok = TRUE,
                               ![p].written = updatedState,
                               ![p].turn = updatedState.currentTurn ]
  /\ UNCHANGED raceMessages
  /\ UNCHANGED nonRaceVars

(***************************************************************************)
(* Part 9: chunkText of the edge function rag-upload.                      *)
(***************************************************************************)

\* the texts handed to chunkText: a text is the sequence of its UTF-16
\* code units, here the units 1, 2, ..., n
ChunkTexts == { [ i \in 1..n |-> i ] : n \in 0..MaxTextLen }

\* the (chunkSize, overlap) arguments: 0 < overlap < chunkSize, as in the
\* call chunkText(text, 1000, 200)
ChunkArguments ==
  { a \in (1..MaxChunkSize) \X (1..MaxChunkSize) : a[2] < a[1] }

\* `Math.min(a, b)`
MathMin(a, b) == IF a < b THEN a ELSE b

\* `text.slice(start, end)` for end within the text: a negative start
\* counts from the end of the text and stops at its beginning
Slice(text, start, end) ==
  LET from == IF start < 0
              THEN (IF Len(text) + start < 0 THEN 0 ELSE Len(text) + start)
              ELSE MathMin(start, Len(text))
  IN IF from >= end THEN << >> ELSE SubSeq(text, from + 1, end)

\* no chunkText call in progress
ChunkIdle ==
  /\ chunkInput = [ text |-> << >>, chunkSize |-> 1000, overlap |-> 200 ]
  /\ chunkStart = 0
  /\ chunks = << >>
  /\ chunkPc = "idle"

\* `const chunks = []; let start = 0;`
ChunkCalled ==
  /\ chunkInput \in { [ text |-> t, chunkSize |-> a[1], overlap |-> a[2] ] :
                        t \in ChunkTexts, a \in ChunkArguments }
  /\ chunkStart = 0
  /\ chunks = << >>
  /\ chunkPc = "loop"

\* one iteration of `while (start < text.length)`
ChunkLoop ==
  /\ chunkPc = "loop"
  /\ chunkStart < Len(chunkInput.text)
  /\ Len(chunks) < MaxChunks
  /\ LET end == MathMin(chunkStart + chunkInput.chunkSize,
                        Len(chunkInput.text))
     IN /\ chunks' = Append(chunks, Slice(chunkInput.text, chunkStart, end))
        /\ chunkStart' = end - chunkInput.overlap
  /\ UNCHANGED <<chunkInput, chunkPc>>
  /\ UNCHANGED nonChunkVars

\* `chunks.push(...)` when the array cannot grow any more: the runtime ends
\* the function without a return value
ChunkOutOfMemory ==
  /\ chunkPc = "loop"
  /\ chunkStart < Len(chunkInput.text)
  /\ Len(chunks) >= MaxChunks
  /\ chunkPc' = "out of memory"
  /\ UNCHANGED <<chunkInput, chunkStart, chunks>>
  /\ UNCHANGED nonChunkVars

\* the loop condition fails: `return chunks`
ChunkReturn ==
  /\ chunkPc = "loop"
  /\ ~(chunkStart < Len(chunkInput.text))
  /\ chunkPc' = "returned"
  /\ UNCHANGED <<chunkInput, chunkStart, chunks>>
  /\ UNCHANGED nonChunkVars

(***************************************************************************)
(* Specifications.                                                         *)
(***************************************************************************)

\* the later parts at rest
LaterIdle ==
  /\ EscalationIdle
  /\ SendIdle
  /\ RaceIdle
  /\ ChunkIdle

\* the first five parts at rest
EarlierIdle ==
  /\ ConvInit
  /\ IntentIdle
  /\ TicketIdle
  /\ ContextIdle
  /\ FeedbackIdle

\* the conversation engine: the operations of the edge function and of
\* the client hook, called in any order
Init ==
  /\ ConvInit
  /\ IntentIdle
  /\ TicketIdle
  /\ ContextIdle
  /\ FeedbackIdle
  /\ LaterIdle

Next ==
  \/ StartMultiAgentConversation
  \/ ContinueConversation
  \/ EndConversation
  \/ StartAgentConversation
  \/ HookContinueConversation
  \/ HookEndConversation

Spec == Init /\ [][Next]_vars

\* one call of classifyIntent
InitIntent ==
  /\ ConvInit
  /\ IntentCalled
  /\ TicketIdle
  /\ ContextIdle
  /\ FeedbackIdle
  /\ LaterIdle

NextIntent == ClassifyIntent

SpecIntent == InitIntent /\ [][NextIntent]_vars

\* one call of classifySupportTicket
InitTicket ==
  /\ ConvInit
  /\ IntentIdle
  /\ TicketCalled
  /\ ContextIdle
  /\ FeedbackIdle
  /\ LaterIdle

NextTicket == ClassifySupportTicket

SpecTicket == InitTicket /\ [][NextTicket]_vars

\* context switching on chat1 by the hook useContextSwitching
InitContext ==
  /\ ConvInit
  /\ IntentIdle
  /\ TicketIdle
  /\ ContextIdle
  /\ FeedbackIdle
  /\ LaterIdle

NextContext ==
  \/ Tick
  \/ AnalyzeContextSwitch
  \/ ExecuteContextSwitch

SpecContext == InitContext /\ [][NextContext]_vars

\* the context sessions of two chats: the hook's switches on chat1 and
\* calls of switch_conversation_context, in any order
InitSession == InitContext

NextSession ==
  \/ Tick
  \/ AnalyzeContextSwitch
  \/ ExecuteContextSwitch
  \/ SwitchConversationContext

SpecSession == InitSession /\ [][NextSession]_vars

\* feedback on one agent: the hook's collectFeedback and the two endpoints
\* of the agents edge function that write the prompt, in any order
InitFeedback ==
  /\ ConvInit
  /\ IntentMounted
  /\ TicketIdle
  /\ ContextIdle
  /\ FeedbackMounted
  /\ LaterIdle

NextFeedback ==
  \/ CollectFeedback
  \/ PostFeedback
  \/ PatchAgent

SpecFeedback == InitFeedback /\ [][NextFeedback]_vars

\* the ticket tables: inserts, updates and the passing of time
InitEscalation ==
  /\ EarlierIdle
  /\ EscalationIdle
  /\ SendIdle
  /\ RaceIdle
  /\ ChunkIdle

NextEscalation ==
  \/ TicketTick
  \/ InsertTicket
  \/ UpdateTicket

SpecEscalation == InitEscalation /\ [][NextEscalation]_vars

\* the chat component: messages are sent while time passes
InitSend ==
  /\ ConvInit
  /\ IntentMounted
  /\ TicketIdle
  /\ ContextIdle
  /\ FeedbackIdle
  /\ LaterIdle

NextSend ==
  \/ Tick
  \/ HandleSend

SpecSend == InitSend /\ [][NextSend]_vars

\* requests of both entry points on one conversation, their steps in any
\* order
InitRace ==
  /\ EarlierIdle
  /\ EscalationIdle
  /\ SendIdle
  /\ RaceStarted
  /\ ChunkIdle

NextRace ==
  \/ \E p \in Requests : EdgeSelect(p)
  \/ \E p \in Requests : EdgeInsertMessage(p)
  \/ \E p \in Requests : EdgeUpdate(p)
  \/ \E p \in Requests : HookSelect(p)
  \/ \E p \in Requests : HookUpdate(p)

SpecRace == InitRace /\ [][NextRace]_vars

\* one chunkText call on any of the texts, run to its end: the function
\* is synchronous, so its next step is taken whenever there is one
InitChunk ==
  /\ EarlierIdle
  /\ EscalationIdle
  /\ SendIdle
  /\ RaceIdle
  /\ ChunkCalled

NextChunk ==
  \/ ChunkLoop
  \/ ChunkOutOfMemory
  \/ ChunkReturn

SpecChunk == InitChunk /\ [][NextChunk]_vars /\ WF_vars(NextChunk)

(***************************************************************************)
(* Properties of the multi-agent conversation engine.                      *)
(***************************************************************************)

\* the stored conversation_state of row c
State(c) == agent_conversations[c].conversation_state

\* the last call read the state of an existing row
ReadRow == last.conv \in 1..Len(agent_conversations) /\ last.pre # NoState

\* the last call left the row it read and the chat transcript as they were
NothingWritten ==
  /\ State(last.conv) = last.pre
  /\ Len(messages) = last.preMessages
  /\ Len(agent_conversations) = last.preRows

\* C1: in every reachable state, every conversation has
\* currentTurn <= maxTurns.
C1_TurnWithinMax ==
  \A c \in 1..Len(agent_conversations) :
    State(c).currentTurn <= State(c).maxTurns

\* C2: a continueTurn on a conversation that is not active, or whose
\* currentTurn is already >= maxTurns, fails and leaves the conversation
\* state and the chat transcript unchanged.
C2_ContinueRefusedWhenNotActive ==
  (last.op = "continue" /\ ReadRow /\ NotActive(last.pre))
    => (~last.ok /\ NothingWritten)

\* C3: the successful continueTurn that makes currentTurn equal to maxTurns
\* leaves the status completed, and the status is active after every
\* earlier turn.
C3_CompletedAtMaxTurns ==
  (last.op = "continue" /\ last.ok /\ ~last.stepFailed /\ ReadRow)
    => /\ State(last.conv).currentTurn = State(last.conv).maxTurns
            => State(last.conv).status = "completed"
       /\ State(last.conv).currentTurn < State(last.conv).maxTurns
            => State(last.conv).status = "active"

\* C4: once the status of a conversation is completed or cancelled, no
\* call changes it.
C4_StatusOnlyForward ==
  [][ \A c \in 1..Len(agent_conversations) :
        State(c).status \in {"completed", "cancelled"}
          => agent_conversations'[c].conversation_state.status
               = State(c).status ]_vars

C6_StartNeedsTwoAgents ==
  (last.op = "start" /\ (Len(last.agentIds) < 2 \/ last.chatId = ""))
    => /\ ~last.ok
       /\ Len(agent_conversations) = last.preRows
       /\ Len(messages) = last.preMessages

\* C7: the next_agent returned by start and by each successful continueTurn
\* is the agent that authors the next successful continueTurn (for start:
\* the second agent, after the opening message of the first).
C7_NextAgentSpeaksNext ==
  (last.op = "continue" /\ last.ok /\ last.expected # Undefined)
    => last.agent = last.expected

\* C8: a continueTurn in which a step fails (agent lookup, persisting the
\* chat message, writing the new conversation state) is reported as an
\* error and neither advances currentTurn nor appends a message to the
\* conversation state or the chat transcript.
C8_FailedTurnChangesNothing ==
  (last.op = "continue" /\ ReadRow /\ last.stepFailed)
    => (~last.ok /\ NothingWritten)

\* C9: an endConversation that directly follows a successful endConversation
\* of the same conversation succeeds and returns the same totals.
C9_EndIdempotent ==
  (last.op = "end" /\ last.entry = "edge" /\ last.repeated)
    => /\ last.ok
       /\ last.total_turns = last.prev_total_turns
       /\ last.total_messages = last.prev_total_messages

\* C9 witness: a conversation with turns taken has been ended twice in a
\* row.
C9_Witness ==
  /\ last.op = "end" /\ last.entry = "edge" /\ last.repeated /\ last.ok
  /\ last.total_turns >= 2
  /\ last.total_messages >= 2
  /\ Summaries(messages) = 2

(***************************************************************************)
(* Properties of classifyIntent.                                           *)
(***************************************************************************)

\* C10: for every message that contains an urgent-pattern keyword,
\* classifyIntent returns intent urgent_support with priority urgent and
\* requiresEscalation, whatever other keywords the message contains.
C10_UrgentWins ==
  (pc = "done" /\ SomeIncluded(urgentPatterns, ToLowerCase(message)))
    => /\ result.outcome = "returned"
       /\ result.intent = "urgent_support"
       /\ result.priority = "urgent"
       /\ result.requiresEscalation

\* the message is empty or consists of spaces only
Blank(msg) == \A i \in 1..Len(msg) : msg[i] = 32

\* C11: classifyIntent returns a result for every string and never
\* throws, also for the messages whose rule looks up agents by role; for
\* an empty or whitespace-only message the result is intent general with
\* confidence 0.5.
C11_ClassifyIntentTotal ==
  pc = "done"
    => /\ result.outcome = "returned"
       /\ Blank(message)
            => (result.intent = "general" /\ result.confidence = 50)

(***************************************************************************)
(* Properties of classifySupportTicket.                                    *)
(***************************************************************************)

\* C12: classifySupportTicket of the message 'kriticheskaya oshibka,
\* sistema ne rabotaet' (the first phrase of TicketFragments) returns
\* category technical, priority urgent and requiresHumanEscalation.
C12_CriticalErrorExample ==
  (ticketPc = "done" /\ ticketMessage = TicketFragments[1])
    => /\ ticket.category = "technical"
       /\ ticket.priority = "urgent"
       /\ ticket.requiresHumanEscalation

\* C13: for every message, classifySupportTicket never returns priority
\* high, returns priority urgent whenever the message contains one of the
\* words of the escalation test, and returns requiresHumanEscalation
\* exactly when the returned priority is urgent.
C13_HighBecomesUrgent ==
  ticketPc = "done"
    => /\ ticket.priority # "high"
       /\ SomeIncluded(ticketEscalationWords, ToLowerCase(ticketMessage))
            => ticket.priority = "urgent"
       /\ ticket.requiresHumanEscalation <=> (ticket.priority = "urgent")

\* C13 witness: a message whose category sets priority high and contains
\* none of the escalation words has been classified as urgent.
C13_Witness ==
  /\ ticketPc = "done"
  /\ TicketCategory(ToLowerCase(ticketMessage)).priority = "high"
  /\ ~SomeIncluded(ticketEscalationWords, ToLowerCase(ticketMessage))
  /\ ticket.priority = "urgent"
  /\ ticket.requiresHumanEscalation

(***************************************************************************)
(* Properties of context switching.                                        *)
(***************************************************************************)

\* the rows of conversation_contexts that belong to chat c
SessionsOf(c) ==
  { i \in 1..Len(conversation_contexts) :
      conversation_contexts[i].chat_id = c }

\* C14: after any sequence of context switches, a chat has at most one
\* active context session (one without end time), and its sessions form a
\* non-overlapping timeline: every earlier session has ended, no later than
\* the next one starts.
C14_OneActiveSession ==
  \A c \in SessionChatInputs :
    /\ Cardinality({ i \in SessionsOf(c) :
                       conversation_contexts[i].session_end = NoTime }) <= 1
    /\ \A i, j \in SessionsOf(c) :
         i < j =>
           /\ conversation_contexts[i].session_end # NoTime
           /\ conversation_contexts[i].session_end
                <= conversation_contexts[j].session_start

\* chat1 has been switched twice, the second time later than the first:
\* its first session is ended and its second one is active
C14_Witness ==
  /\ Len(conversation_contexts) >= 2
  /\ conversation_contexts[1].chat_id = "chat1"
  /\ conversation_contexts[2].chat_id = "chat1"
  /\ conversation_contexts[1].session_start
       < conversation_contexts[2].session_start
  /\ conversation_contexts[1].session_end
       = conversation_contexts[2].session_start
  /\ conversation_contexts[2].session_end = NoTime

\* the last call was made in context rag with no active documents
RagWithoutDocuments ==
  /\ analysis.outcome # "none"
  /\ analysis.passed.currentContext = "rag"
  /\ analysis.passed.activeDocuments = << >>

\* the message of the last call holds no document word, neither of
\* analyzeContextSwitch nor of the effectiveness check
NoDocumentKeyword ==
  /\ ~SomeIncluded(documentKeywords, ToLowerCase(analysis.message))
  /\ ~SomeIncluded(docKeywords, ToLowerCase(analysis.message))

\* the message of the last call matches no history, agent-task or
\* technical keyword of analyzeContextSwitch
NoOtherTrigger ==
  /\ ~SomeIncluded(historyKeywords, ToLowerCase(analysis.message))
  /\ ~SomeIncluded(agentTaskKeywords, ToLowerCase(analysis.message))
  /\ ~SomeIncluded(technicalKeywords, ToLowerCase(analysis.message))

\* the last call returned shouldSwitch = true with newContext = general
SwitchedToGeneral ==
  /\ analysis.outcome = "returned"
  /\ analysis.shouldSwitch
  /\ analysis.newContext = "general"

\* C15 as stated: every call of analyzeContextSwitch in context rag with
\* no active documents and a message without document keyword returns
\* shouldSwitch = true with newContext = general.
C15_Degradation ==
  (RagWithoutDocuments /\ NoDocumentKeyword) => SwitchedToGeneral

\* C15 amended: every call of analyzeContextSwitch in context rag with no
\* active documents and a message that matches no document, history,
\* agent-task or technical keyword returns shouldSwitch = true with
\* newContext = general.
C15_DegradationWithoutTrigger ==
  (RagWithoutDocuments /\ NoDocumentKeyword /\ NoOtherTrigger)
    => SwitchedToGeneral

\* such a call: in context rag without documents, a message without any
\* keyword, answered by a switch to general
C15_Witness ==
  /\ RagWithoutDocuments
  /\ NoDocumentKeyword
  /\ NoOtherTrigger
  /\ SwitchedToGeneral

\* C16: of two analyzeContextSwitch calls on the chat less than 5 minutes
\* apart, the first one's switch executed and the second message without
\* document, history, agent-task or technical keyword, not both return
\* shouldSwitch = true.
C16_AntiThrash ==
  ( /\ previous.outcome = "returned"
    /\ previous.executed
    /\ analysis.outcome = "returned"
    /\ analysis.time - previous.time < RecentSwitchMinutes
    /\ ~SomeIncluded(documentKeywords, ToLowerCase(analysis.message))
    /\ NoOtherTrigger )
    => ~(previous.shouldSwitch /\ analysis.shouldSwitch)

(***************************************************************************)
(* Properties of the self-improving agents.                                *)
(***************************************************************************)

\* C17: prompt growth is monotonic: after a feedback operation
\* (collectFeedback with its improvement analysis, or the feedback
\* endpoint) the agent's system prompt has its previous system prompt as a
\* prefix; text is only appended.
C17_PromptOnlyGrows ==
  feedbackLast.op \in {"collectFeedback", "postFeedback"}
    => IsPrefix(feedbackLast.prePrompt, system_prompt)

\* a recording whose analysis rewrote a prompt that had already grown, and
\* made it longer
C17_Witness ==
  /\ feedbackLast.op = "collectFeedback"
  /\ feedbackLast.called
  /\ Len(feedbackLast.prePrompt) > Len(BasePrompt)
  /\ Len(system_prompt) > Len(feedbackLast.prePrompt)
  /\ IsPrefix(feedbackLast.prePrompt, system_prompt)

\* the improvement condition in exact arithmetic: negative ratio above 0.3,
\* or average confidence below 0.7, or an issue mentioned by two or more
\* of the records
ImprovementCondition(feedback) ==
  \/ 10 * NegativeFeedback(feedback) > 3 * Len(feedback)
  \/ ConfidenceTotal(feedback, Len(feedback)) < 70 * Len(feedback)
  \/ \E k \in 1..Len(IssuePatterns) :
       Cardinality({ i \in 1..Len(feedback) :
                       Mentions(feedback[i], IssuePatterns[k].keywords) }) >= 2

\* C18: the analysis after a recording does nothing when the agent has
\* fewer than 3 feedback records; otherwise, over the agent's most recent
\* 10 records, it starts a prompt improvement exactly when the negative
\* ratio is above 0.3, or the average confidence is below 0.7, or at least
\* one issue is mentioned by 2 or more records.
C18_ImprovementCondition ==
  feedbackLast.op = "collectFeedback"
    => LET recent == RecentFeedback(agent_feedback)
       IN /\ Len(recent) < MinFeedback
               => /\ ~feedbackLast.called
                  /\ system_prompt = feedbackLast.prePrompt
                  /\ Len(prompt_improvement_logs) = feedbackLast.preLogs
          /\ Len(recent) >= MinFeedback
               => (feedbackLast.called <=> ImprovementCondition(recent))

\* a correction that mentions an accuracy keyword
AccuracyCorrection(f) ==
  f.feedback_type = "correction" /\ Mentions(f, accuracyPatterns)

\* C19: starting from an agent without feedback, recording 3 corrections
\* in a row that each mention an accuracy keyword produces exactly one
\* improvement-log entry, written at the third recording, whose
\* feedback_ids are those 3 records and whose new_prompt has the
\* old_prompt as a prefix.
C19_ThreeCorrections ==
  ( /\ feedbackLast.op = "collectFeedback"
    /\ Len(agent_feedback) <= 3
    /\ \A i \in 1..Len(agent_feedback) :
         AccuracyCorrection(agent_feedback[i]) )
    => /\ Len(agent_feedback) < 3 => prompt_improvement_logs = << >>
       /\ Len(agent_feedback) = 3
            => /\ feedbackLast.preLogs = 0
               /\ Len(prompt_improvement_logs) = 1
               /\ Range(prompt_improvement_logs[1].feedback_ids) = {1, 2, 3}
               /\ IsPrefix(prompt_improvement_logs[1].old_prompt,
                           prompt_improvement_logs[1].new_prompt)

\* C20: every change of the agent's system prompt is recorded: when an
\* operation has changed it, prompt_improvement_logs holds an entry with
\* the text before the change as old_prompt, the text after it as
\* new_prompt, and a reason.
C20_EveryChangeLogged ==
  (feedbackLast.op # "none" /\ system_prompt # feedbackLast.prePrompt)
    => \E i \in 1..Len(prompt_improvement_logs) :
         /\ prompt_improvement_logs[i].old_prompt = feedbackLast.prePrompt
         /\ prompt_improvement_logs[i].new_prompt = system_prompt
         /\ prompt_improvement_logs[i].improvement_reason # << >>

(***************************************************************************)
(* Properties of the ticket tables.                                        *)
(***************************************************************************)

\* C21: the auto-escalation check never re-escalates: every escalation
\* record an update appends is for a ticket whose escalated_at was not set
\* before the update.
C21_NeverReEscalates ==
  [][ Len(support_escalations') > Len(support_escalations)
      => support_tickets[support_escalations'[Len(support_escalations')]
                           .ticket_id].escalated_at = NoTime ]_vars

(***************************************************************************)
(* Properties of handleSend.                                               *)
(***************************************************************************)

\* C22: when the response generation for a message fails, the chat's
\* conversation context, its chat type and agent assignment and the set of
\* support tickets are as they were before the message was handled.
C22_FailureAdvancesNothing ==
  sendLast.failed =>
    /\ chatMeta = sendLast.pre.chatMeta
    /\ currentContext = sendLast.pre.currentContext
    /\ chat_type = sendLast.pre.chat_type
    /\ agent_ids = sendLast.pre.agent_ids
    /\ support_tickets = sendLast.pre.support_tickets

(***************************************************************************)
(* Properties of requests in flight.                                       *)
(***************************************************************************)

\* requests p and q both selected the same state before either wrote, and
\* both succeeded
Interleaved(p, q) ==
  /\ p # q
  /\ requests[p].pc = "done" /\ requests[p].ok
  /\ requests[q].pc = "done" /\ requests[q].ok
  /\ requests[p].state = requests[q].state

\* the turn of request p is among the messages of the stored state
TurnKept(p) ==
  \E i \in 1..Len(raceConversation.conversation_state.messages) :
    raceConversation.conversation_state.messages[i].content = p

\* the stored state is the one p or q wrote
LastWrittenBy(p, q) ==
  raceConversation.conversation_state
    \in {requests[p].written, requests[q].written}

\* C23: when two continueConversation calls on one conversation both read
\* the state before either writes it, both succeed and report the same
\* turn, currentTurn has advanced by one only, one of the two turns only is
\* kept in the state's messages, and two calls of the edge function are
\* both authored by the same agent.
C23_LostUpdate ==
  \A p \in Requests, q \in Requests :
    (Interleaved(p, q) /\ LastWrittenBy(p, q)) =>
      /\ raceConversation.conversation_state.currentTurn =
           requests[p].state.currentTurn + 1
      /\ Len(raceConversation.conversation_state.messages) =
           Len(requests[p].state.messages) + 1
      /\ requests[p].turn = requests[q].turn
      /\ ~(TurnKept(p) /\ TurnKept(q))
      /\ (requests[p].entry = "edge" /\ requests[q].entry = "edge")
           => requests[p].agent = requests[q].agent

\* two calls of the edge function have interleaved and succeeded
C23_Witness ==
  \E p \in Requests, q \in Requests :
    /\ Interleaved(p, q)
    /\ LastWrittenBy(p, q)
    /\ requests[p].entry = "edge" /\ requests[q].entry = "edge"
    /\ Len(raceMessages) = 2
    /\ TurnKept(p) /\ ~TurnKept(q)

(***************************************************************************)
(* Further properties of context switching.                                *)
(***************************************************************************)

\* the first keyword family of analyzeContextSwitch, in the order
\* document, history, agent-task/technical, that the message of the last
\* call matches
FirstFamily ==
  LET lowerMessage == ToLowerCase(analysis.message)
  IN IF SomeIncluded(documentKeywords, lowerMessage) THEN "document"
     ELSE IF SomeIncluded(historyKeywords, lowerMessage) THEN "history"
     ELSE IF \/ SomeIncluded(agentTaskKeywords, lowerMessage)
             \/ SomeIncluded(technicalKeywords, lowerMessage)
     THEN "agent"
     ELSE "none"

\* C24: the first matching keyword family alone determines the result of
\* analyzeContextSwitch: rag at confidence 0.85 for a document match,
\* history at 0.80 for a history match, the classifier's agent decision
\* (a switch to agent, or no switch) for an agent-task or technical match;
\* the effectiveness fallback decides only when no family matched.
C24_FirstFamilyDecides ==
  analysis.outcome = "returned" =>
    /\ FirstFamily = "document" =>
         /\ analysis.shouldSwitch
         /\ analysis.newContext = "rag"
         /\ analysis.confidence = 85
    /\ FirstFamily = "history" =>
         /\ analysis.shouldSwitch
         /\ analysis.newContext = "history"
         /\ analysis.confidence = 80
    /\ FirstFamily = "agent" =>
         (analysis.shouldSwitch => analysis.newContext = "agent")

(***************************************************************************)
(* Further properties of classifyIntent.                                   *)
(***************************************************************************)

\* the rules of classifyIntent in the order of its if / else-if chain
RuleOrder ==
  << "urgent_support", "technical_support", "document_question",
     "research_request", "feature_request", "bug_report" >>

\* the rule sets that match a lower-cased message, each with the
\* confidence its branch assigns
MatchingRules(lowerMessage) ==
  { r \in
      { [ rule |-> 1, matches |-> SomeIncluded(urgentPatterns, lowerMessage),
          confidence |-> 95 ],
        [ rule |-> 2,
          matches |->
            \/ SomeIncluded(technicalPatternsHigh, lowerMessage)
            \/ SomeIncluded(technicalPatternsMedium, lowerMessage)
            \/ SomeIncluded(technicalPatternsLow, lowerMessage),
          confidence |->
            IF SomeIncluded(technicalPatternsHigh, lowerMessage) THEN 90
            ELSE IF SomeIncluded(technicalPatternsMedium, lowerMessage)
            THEN 80 ELSE 70 ],
        [ rule |-> 3,
          matches |-> SomeIncluded(documentPatterns, lowerMessage),
          confidence |-> 85 ],
        [ rule |-> 4,
          matches |-> SomeIncluded(researchPatterns, lowerMessage),
          confidence |-> 80 ],
        [ rule |-> 5,
          matches |-> SomeIncluded(featurePatterns, lowerMessage),
          confidence |-> 75 ],
        [ rule |-> 6, matches |-> SomeIncluded(bugPatterns, lowerMessage),
          confidence |-> 80 ] } : r.matches }

\* C25: when several rule sets match the message of a classifyIntent call
\* that returned, the result is that of the first matching rule in the
\* order urgent, technical, document, research, feature, bug, and no
\* matching rule has a higher confidence.
C25_FirstIsHighest ==
  LET matching == MatchingRules(ToLowerCase(message))
  IN (pc = "done" /\ result.outcome = "returned" /\ matching # {}) =>
       \E first \in matching :
         /\ \A r \in matching : first.rule <= r.rule
         /\ result.intent = RuleOrder[first.rule]
         /\ result.confidence = first.confidence
         /\ \A r \in matching : r.confidence <= first.confidence

(***************************************************************************)
(* Further properties of the conversation engine.                          *)
(***************************************************************************)

\* C26: an endConversation on a conversation that is already completed
\* changes no persisted state: the stored conversation state is as it was
\* and no summary message is appended to the chat transcript.
C26_EndCompletedWritesNothing ==
  ( /\ last.op = "end" /\ last.entry = "edge"
    /\ ReadRow
    /\ last.pre.status = "completed" )
    => NothingWritten

\* C27: whenever analyzeContextSwitch is called with a currentContext and
\* returns shouldSwitch = true, the returned newContext differs from the
\* context the chat is in.
C27_SwitchChangesContext ==
  ( /\ analysis.outcome = "returned"
    /\ analysis.passed # NoContext
    /\ analysis.shouldSwitch )
    => analysis.newContext # analysis.passed.currentContext

\* C28: in every conversation record the status column and the status
\* field inside conversation_state agree after every start, continue and
\* end operation, so a lookup by the status column never returns an active
\* row whose state is completed.
C28_StatusColumnAgrees ==
  \A c \in 1..Len(agent_conversations) :
    agent_conversations[c].status = State(c).status

\* improvement log l appended the text of feedback record r to the prompt:
\* r is a correction among the records the improvement analysed, and its
\* text is an item of what new_prompt adds to old_prompt
AppendedBy(l, r) ==
  LET log == prompt_improvement_logs[l]
  IN /\ agent_feedback[r].feedback_type = "correction"
     /\ \E i \in 1..Len(log.feedback_ids) :
          log.feedback_ids[i] = agent_feedback[r].id
     /\ \E i \in (Len(log.old_prompt) + 1)..Len(log.new_prompt) :
          /\ log.new_prompt[i].kind = "item"
          /\ log.new_prompt[i].text = agent_feedback[r].user_feedback

\* C29: across any sequence of feedback calls for an agent, the text of a
\* given correction record is appended to the agent's system prompt at
\* most once.
C29_CorrectionAppendedOnce ==
  \A r \in 1..Len(agent_feedback) :
    Cardinality({ l \in 1..Len(prompt_improvement_logs) :
                    AppendedBy(l, r) }) <= 1

\* C30: chunkText(text, chunkSize, overlap) terminates for every finite
\* text when 0 < overlap < chunkSize, and the chunks it returns are each at
\* most chunkSize long.
C30_ChunkTextTerminates ==
  /\ <>(chunkPc = "returned")
  /\ [](chunkPc = "returned" =>
          \A i \in 1..Len(chunks) : Len(chunks[i]) <= chunkInput.chunkSize)

====
